---- MODULE Spec2Model ----
(***************************************************************************)
(* HandScape gesture recognition: RobustMediaPipeTracker                   *)
(* (src/src/components/MediaPipeTest.tsx) and the subscriber list of       *)
(* MediaPipeHandTracker (src/src/app/components/hand-tracking/             *)
(* handTracking.ts).                                                       *)
(*                                                                         *)
(* Units.  A coordinate unit is 0.005 of the normalized frame, so that     *)
(* every threshold of the source is an integer: 0.05 = 10, 0.25 = 50,      *)
(* 0.045 = 9, 0.12 = 24, 0.02 = 4.  A confidence unit is 1/2400, so that   *)
(* 0.75 = 1800, 0.8 = 1920, 0.85 = 2040, 0.95 = 2280, 0.65 = 1560,         *)
(* 0.1 = 240, 0.05 = 120, and 8 x one coordinate unit = 0.04 = 96.         *)
(* Times are milliseconds.                                                 *)
(***************************************************************************)
EXTENDS Integers, Sequences, FiniteSets, TLC

VARIABLES
  clock,               \* the wall clock Date.now() reads (ms)
  handStabilityBuffer, \* MediaPipeTest.tsx:18, wrist positions
  twoHandHistory,      \* MediaPipeTest.tsx:16
  lastGestureTime,     \* MediaPipeTest.tsx:17, a Map: key -> ms
  callbacks,           \* MediaPipeTest.tsx:10, registered callbacks in order
  unsubscribes,        \* the functions subscribe has returned (lines 826-828), each
                       \* with the callback it closes over and the calls made of it
  isInitialized,       \* MediaPipeTest.tsx:11
  hands,               \* MediaPipeTest.tsx:9: "none", "open" or "closed"
  sending,             \* hands.send calls of the frame loop in flight (line 143)
  closedSending,       \* hands.send calls in flight on a detector that was closed
  rafPending,          \* requestAnimationFrame(processFrame) is pending (line 150)
  simTimers,           \* pending setTimeout(simulateNext, ...) of each simulation chain
  frame,               \* the results object handled by the last onHandResults
  emitted,             \* the gestures the last handler took to callbacks.forEach, with
                       \* the callbacks that were invoked
  lastDelivered,       \* (type, handedness) -> data.timestamp of the last event from
                       \* hand data that subscribers received
  thrown,              \* an exception left emitGesture in the last handler
  destroyed,           \* destroy() was called and initialize() not since
  lastOp,              \* the handler that ran last
  steps,               \* handlers run so far, per kind
  replica,             \* a second tracker instance (MediaPipeTest.tsx:16-18 of another
                       \* `new RobustMediaPipeTracker()`), idle unless frames are
                       \* replayed to it
  handTracker,         \* the MediaPipeHandTracker singleton of handTracking.ts:343
                       \* and its Camera
  stretchTest,         \* the SimpleHandTrackingTest component of src/unnamed/part_001
  fistTest             \* the SimpleHandTrackingTest component of src/unnamed/part_000

engineVars == <<handStabilityBuffer, twoHandHistory, lastGestureTime>>
loopVars == <<hands, sending, closedSending, rafPending>>
testVars == <<stretchTest, fistTest>>
vars == <<clock, handStabilityBuffer, twoHandHistory, lastGestureTime, callbacks,
          unsubscribes,
          isInitialized, hands, sending, closedSending, rafPending, simTimers, frame,
          emitted, lastDelivered, thrown, destroyed, lastOp, steps, replica,
          handTracker, stretchTest, fistTest>>

----------------------------------------------------------------------------
(* Program constants (MediaPipeTest.tsx:21-28 and inline literals).        *)

HISTORY_SIZE == 7
MIN_DISTANCE_CHANGE == 9
MIN_DIRECTION_RATIO == 2
PINCH_THRESHOLD == 10
GESTURE_DEBOUNCE_TIME == 400
MIN_CONFIDENCE_THRESHOLD == 1800
HAND_STABILITY_FRAMES == 4
MAX_HAND_JITTER == 4
SPREAD_THRESHOLD == 50
CLAP_DISTANCE == 24
DIRECTION_MIN_LOOKBACK_MS == 400
MAX_CONFIDENCE == 2280

(* Bounds of the model.                                                    *)
MaxSingleFrames == 4
MaxPairFrames == 3
MaxCallbacks == 1
\* the lifecycle: subscribers, initialize/destroy calls, frames, simulated gestures
MaxSubscribers == 2
MaxLifeOps == 2
MaxLifeFrames == 9
MaxSims == 2
MaxChains == 1
MaxCoord == 100
\* Date.now() when the tracker is constructed
StartClock == 1000

----------------------------------------------------------------------------
(* Arithmetic helpers.                                                     *)

Abs(n) == IF n < 0 THEN -n ELSE n
Min(a, b) == IF a < b THEN a ELSE b
Max(a, b) == IF a > b THEN a ELSE b

\* Math.sqrt on the squared distances of the model, which are perfect squares
\* for every pair of points the input sets below let the code compare.
RECURSIVE SqrtBetween(_, _, _)
SqrtBetween(n, lo, hi) ==
  IF lo >= hi THEN lo
  ELSE LET mid == (lo + hi + 1) \div 2
       IN  IF mid * mid <= n THEN SqrtBetween(n, mid, hi) ELSE SqrtBetween(n, lo, mid - 1)
Sqrt(n) == SqrtBetween(n, 0, 2 * MaxCoord)
IsSquare(n) == Sqrt(n) * Sqrt(n) = n

Pt(px, py) == [x |-> px, y |-> py]
Dist2(p1, p2) == (p1.x - p2.x) * (p1.x - p2.x) + (p1.y - p2.y) * (p1.y - p2.y)

\* distance(p1, p2), MediaPipeTest.tsx:685
distance(p1, p2) == Sqrt(Dist2(p1, p2))

\* A JavaScript Map: absent keys are outside the domain.
EmptyMap == << >>
MapSet(m, k, v) == [q \in (DOMAIN m) \cup {k} |-> IF q = k THEN v ELSE m[q]]
\* this.lastGestureTime.get(gestureType) || 0, MediaPipeTest.tsx:723
MapGetOrZero(m, k) == IF k \in DOMAIN m THEN m[k] ELSE 0

----------------------------------------------------------------------------
(* Gesture objects.  position and description carry no decision of the     *)
(* tracker; of description only "Simulated ... (MediaPipe fallback)" vs.   *)
(* "... from MediaPipe" is kept (simulated).                               *)

Gesture(type, handedness, confidence, timestamp, dist, change, direction, sim) ==
  [type |-> type, handedness |-> handedness, confidence |-> confidence,
   timestamp |-> timestamp, distance |-> dist, distanceChange |-> change,
   direction |-> direction, simulated |-> sim]

\* the null a classifier returns
Null == Gesture("null", "", 0, 0, 0, 0, "", FALSE)

\* landmarks[i] of an array with no index i
Undefined == [undefined |-> TRUE]
\* a classifier that reads .x of undefined does not return: it throws this
TypeError == Gesture("TypeError", "", 0, 0, 0, 0, "", FALSE)

----------------------------------------------------------------------------
(* checkHandStability, MediaPipeTest.tsx:690-718                           *)

\* lines 693-701: push the wrist, keep the last HAND_STABILITY_FRAMES
StabilityPush(buf, wrist) ==
  LET b == Append(buf, wrist)
  IN  IF Len(b) > HAND_STABILITY_FRAMES THEN Tail(b) ELSE b

\* line 710: slice(-HAND_STABILITY_FRAMES)
SliceLast(s, n) == IF Len(s) > n THEN SubSeq(s, Len(s) - n + 1, Len(s)) ELSE s

\* lines 709-715
MaxJitterOf(recent) ==
  LET moves == {distance(recent[i], recent[i - 1]) : i \in 2..Len(recent)}
  IN  IF moves = {} THEN 0 ELSE CHOOSE v \in moves : \A w \in moves : w <= v

\* variant of the verdict that does not wait for HAND_STABILITY_FRAMES samples
StabilityVerdictEager(buf) ==
  MaxJitterOf(SliceLast(buf, HAND_STABILITY_FRAMES)) < MAX_HAND_JITTER

\* variant of the verdict that accepts a displacement of exactly MAX_HAND_JITTER
StabilityVerdictInclusive(buf) ==
  IF Len(buf) < HAND_STABILITY_FRAMES
  THEN FALSE
  ELSE MaxJitterOf(SliceLast(buf, HAND_STABILITY_FRAMES)) <= MAX_HAND_JITTER

\* lines 704-717: the verdict, on the buffer after the push
StabilityVerdict(buf) ==
  IF Len(buf) < HAND_STABILITY_FRAMES
  THEN FALSE
  ELSE MaxJitterOf(SliceLast(buf, HAND_STABILITY_FRAMES)) < MAX_HAND_JITTER

----------------------------------------------------------------------------
(* shouldEmitGesture, MediaPipeTest.tsx:721-731                            *)

\* variant of the rejection test that still rejects at exactly
\* GESTURE_DEBOUNCE_TIME
DebounceRejectsInclusive(lastTime, now) == now - lastTime <= GESTURE_DEBOUNCE_TIME

\* line 725: the rejection test
DebounceRejects(lastTime, now) == now - lastTime < GESTURE_DEBOUNCE_TIME

shouldEmitGesture(lgt, gestureType, now) ==
  IF DebounceRejects(MapGetOrZero(lgt, gestureType), now)
  THEN [admit |-> FALSE, lgt |-> lgt]
  ELSE [admit |-> TRUE, lgt |-> MapSet(lgt, gestureType, now)]

----------------------------------------------------------------------------
(* calculateConfidence, MediaPipeTest.tsx:734-745                          *)

\* variant without the history bonus
calculateConfidenceNoHistory(baseConfidence, isStable, hasHistory) ==
  Min(MAX_CONFIDENCE, baseConfidence + (IF isStable THEN 240 ELSE 0))

\* variant without the stability bonus
calculateConfidenceNoBonus(baseConfidence, isStable, hasHistory) ==
  Min(MAX_CONFIDENCE, baseConfidence + (IF hasHistory THEN 120 ELSE 0))

calculateConfidence(baseConfidence, isStable, hasHistory) ==
  Min(MAX_CONFIDENCE,
      baseConfidence + (IF isStable THEN 240 ELSE 0) + (IF hasHistory THEN 120 ELSE 0))

----------------------------------------------------------------------------
(* analyzeSingleHand, MediaPipeTest.tsx:337-414.  t is what Date.now()     *)
(* returns at line 355, t + skew what it returns inside shouldEmitGesture. *)
(* The result carries the buffer and map the call leaves and the last      *)
(* clock value it read.                                                    *)

IsPinching(thumbIndexDist) == thumbIndexDist < PINCH_THRESHOLD
IsSpread(fingersSpread) == fingersSpread > SPREAD_THRESHOLD

SingleResult(g, buf, lgt, t) == [gesture |-> g, buf |-> buf, lgt |-> lgt, clock |-> t]

\* lines 357-383
PinchBranch(handedness, thumbIndexDist, isStable, buf, lgt, t, skew) ==
  LET gate == shouldEmitGesture(lgt, "PINCH_" \o handedness, t + skew)
      confidence == calculateConfidence(1920, isStable, TRUE)
  IN  IF ~gate.admit THEN SingleResult(Null, buf, lgt, t + skew)
      ELSE IF confidence < MIN_CONFIDENCE_THRESHOLD
      THEN SingleResult(Null, buf, gate.lgt, t + skew)
      ELSE SingleResult(
             Gesture("PINCH", handedness, confidence, t, thumbIndexDist, 0, "", FALSE),
             buf, gate.lgt, t + skew)

\* lines 385-411
SpreadBranch(handedness, fingersSpread, isStable, buf, lgt, t, skew) ==
  LET gate == shouldEmitGesture(lgt, "SPREAD_" \o handedness, t + skew)
      confidence == calculateConfidence(1800, isStable, TRUE)
  IN  IF ~gate.admit THEN SingleResult(Null, buf, lgt, t + skew)
      ELSE IF confidence < MIN_CONFIDENCE_THRESHOLD
      THEN SingleResult(Null, buf, gate.lgt, t + skew)
      ELSE SingleResult(
             Gesture("SPREAD", handedness, confidence, t, fingersSpread, 0, "", FALSE),
             buf, gate.lgt, t + skew)

\* lines 339-342: the stability gate
StabilityGate(isStable) == isStable

\* variant that goes on to the spread test when the pinch is debounced
analyzeSingleHandFallThrough(landmarks, handedness, buf0, lgt, t, skew) ==
  LET buf == StabilityPush(buf0, landmarks.l0)
      isStable == StabilityVerdict(buf)
      thumbIndexDist == distance(landmarks.l4, landmarks.l8)
      fingersSpread == distance(landmarks.l8, landmarks.l20)
      pinch == PinchBranch(handedness, thumbIndexDist, isStable, buf, lgt, t, skew)
  IN  IF ~StabilityGate(isStable) THEN SingleResult(Null, buf, lgt, t)
      ELSE IF IsPinching(thumbIndexDist) /\ pinch.gesture # Null THEN pinch
      ELSE IF IsSpread(fingersSpread)
      THEN SpreadBranch(handedness, fingersSpread, isStable, buf, lgt, t, skew)
      ELSE SingleResult(Null, buf, lgt, t)

analyzeSingleHand(landmarks, handedness, buf0, lgt, t, skew) ==
  LET buf == StabilityPush(buf0, landmarks.l0)
      isStable == StabilityVerdict(buf)
      thumbIndexDist == distance(landmarks.l4, landmarks.l8)
      fingersSpread == distance(landmarks.l8, landmarks.l20)
  IN  IF ~StabilityGate(isStable) THEN SingleResult(Null, buf, lgt, t)
      ELSE IF Undefined \in {landmarks.l4, landmarks.l8, landmarks.l20}
      THEN SingleResult(TypeError, buf, lgt, t)   \* lines 352-353
      ELSE IF IsPinching(thumbIndexDist)
      THEN PinchBranch(handedness, thumbIndexDist, isStable, buf, lgt, t, skew)
      ELSE IF IsSpread(fingersSpread)
      THEN SpreadBranch(handedness, fingersSpread, isStable, buf, lgt, t, skew)
      ELSE SingleResult(Null, buf, lgt, t)

----------------------------------------------------------------------------
(* detectTwoHandDirection, MediaPipeTest.tsx:513-618 (lines 620-682 are    *)
(* unreachable).  hist is twoHandHistory after the push, now what          *)
(* Date.now() returns inside shouldEmitGesture.  clock is the last clock   *)
(* value the call read (current.timestamp when it read none).              *)

DirResult(g, lgt, t) == [gesture |-> g, lgt |-> lgt, clock |-> t]

\* variant that looks one entry further back (the oldest, of three)
PreviousOneFurther(hist) == hist[Max(1, Len(hist) - 3)]

\* line 514: this.twoHandHistory[this.twoHandHistory.length - 3]
Previous(hist) == hist[Len(hist) - 2]

\* variant of the vertical test without MIN_DIRECTION_RATIO
IsVerticalPrimaryNoRatio(horizontalChange, verticalChange) ==
  Abs(verticalChange) > Abs(horizontalChange)

\* lines 528-529
IsHorizontalPrimary(horizontalChange, verticalChange) ==
  Abs(horizontalChange) > Abs(verticalChange) * MIN_DIRECTION_RATIO
IsVerticalPrimary(horizontalChange, verticalChange) ==
  Abs(verticalChange) > Abs(horizontalChange) * MIN_DIRECTION_RATIO

\* variant that adds 4 (not 8) times the change
DirectionConfidenceHalf(distanceChange, histLen) ==
  Min(MAX_CONFIDENCE,
      1560 + Abs(distanceChange) * 48 + (IF histLen >= HISTORY_SIZE THEN 240 ELSE 0))

\* lines 535-539
DirectionConfidence(distanceChange, histLen) ==
  Min(MAX_CONFIDENCE,
      1560 + Abs(distanceChange) * 96 + (IF histLen >= HISTORY_SIZE THEN 240 ELSE 0))

\* line 525
SignificantChange(distanceChange) == ~(Abs(distanceChange) < MIN_DISTANCE_CHANGE)

\* line 518
EnoughTime(timeDiff) == ~(timeDiff < DIRECTION_MIN_LOOKBACK_MS)

\* lines 544-616: one of the four emitting branches
DirBranch(type, direction, current, distanceChange, confidence, lgt, now) ==
  LET gate == shouldEmitGesture(lgt, type, now)
  IN  IF ~gate.admit THEN DirResult(Null, lgt, now)
      ELSE DirResult(
             Gesture(type, "Both", confidence, current.timestamp, current.handsDistance,
                     distanceChange, direction, FALSE),
             gate.lgt, now)

\* lines 544 and 580: the sign of distanceChange selects STRETCH or SHRINK
DirPrefix(distanceChange) ==
  IF distanceChange > 0 THEN "STRETCH" ELSE IF distanceChange < 0 THEN "SHRINK" ELSE ""

detectTwoHandDirection(current, hist, lgt, now) ==
  LET previous == Previous(hist)
      timeDiff == current.timestamp - previous.timestamp
      distanceChange == current.handsDistance - previous.handsDistance
      horizontalChange == current.horizontalSpread - previous.horizontalSpread
      verticalChange == current.verticalSpread - previous.verticalSpread
      isHorizontalPrimary == IsHorizontalPrimary(horizontalChange, verticalChange)
      isVerticalPrimary == IsVerticalPrimary(horizontalChange, verticalChange)
      confidence == DirectionConfidence(distanceChange, Len(hist))
      prefix == DirPrefix(distanceChange)
  IN  IF ~EnoughTime(timeDiff) THEN DirResult(Null, lgt, current.timestamp)
      ELSE IF ~SignificantChange(distanceChange) THEN DirResult(Null, lgt, current.timestamp)
      ELSE IF confidence < MIN_CONFIDENCE_THRESHOLD
      THEN DirResult(Null, lgt, current.timestamp)
      ELSE IF prefix = "" THEN DirResult(Null, lgt, current.timestamp)
      ELSE IF isVerticalPrimary
      THEN DirBranch(prefix \o "_VERTICAL", "vertical", current, distanceChange,
                     confidence, lgt, now)
      ELSE IF isHorizontalPrimary
      THEN DirBranch(prefix \o "_HORIZONTAL", "horizontal", current, distanceChange,
                     confidence, lgt, now)
      ELSE DirResult(Null, lgt, current.timestamp)

----------------------------------------------------------------------------
(* analyzeTwoHands, MediaPipeTest.tsx:416-511.  results is the sequence of *)
(* hands (multiHandLandmarks, 1-based here); t is the first clock value    *)
(* the call reads, t + skew the second.                                    *)

TwoResult(g, hist, lgt, t) == [gesture |-> g, hist |-> hist, lgt |-> lgt, clock |-> t]

\* lines 481-488; the input sets keep the sums even
Center(thumbTip, indexTip) ==
  Pt((thumbTip.x + indexTip.x) \div 2, (thumbTip.y + indexTip.y) \div 2)

\* lines 490-497
Measurement(t, leftCenter, rightCenter) ==
  [timestamp |-> t, leftCenter |-> leftCenter, rightCenter |-> rightCenter,
   handsDistance |-> distance(leftCenter, rightCenter),
   horizontalSpread |-> Abs(leftCenter.x - rightCenter.x),
   verticalSpread |-> Abs(leftCenter.y - rightCenter.y)]

\* variant of the push that never evicts
HistoryPushUnbounded(hist, m) == Append(hist, m)

\* lines 500-503
HistoryPush(hist, m) ==
  LET h == Append(hist, m)
  IN  IF Len(h) > HISTORY_SIZE THEN Tail(h) ELSE h

\* line 450: Math.min(0.95, baseConfidence + distanceScore * 0.1)
ClapConfidence(handsDistance) ==
  Min(MAX_CONFIDENCE, 2040 + ((CLAP_DISTANCE - handsDistance) * 240) \div CLAP_DISTANCE)

\* variant of the clap test that accepts a distance of exactly CLAP_DISTANCE
IsClapInclusive(handsDistance) == handsDistance <= CLAP_DISTANCE

\* line 443
IsClap(handsDistance) == handsDistance < CLAP_DISTANCE

\* lines 436-474: shouldEmitGesture reads the clock first (t), the event's
\* timestamp is a second read (line 466)
ClapBranch(leftHand, rightHand, hist, lgt, t, skew) ==
  LET handsDistance == distance(leftHand.l9, rightHand.l9)
      gate == shouldEmitGesture(lgt, "CLAP", t)
      confidence == ClapConfidence(handsDistance)
  IN  IF Undefined \in {leftHand.l9, rightHand.l9}
      THEN TwoResult(TypeError, hist, lgt, t)   \* lines 438-439
      ELSE IF ~IsClap(handsDistance) THEN TwoResult(Null, hist, lgt, t)
      ELSE IF ~gate.admit THEN TwoResult(Null, hist, lgt, t)
      ELSE IF confidence < MIN_CONFIDENCE_THRESHOLD THEN TwoResult(Null, hist, gate.lgt, t)
      ELSE TwoResult(
             Gesture("CLAP", "Both", confidence, t + skew, handsDistance, 0, "", FALSE),
             hist, gate.lgt, t + skew)

\* line 506
WarmedUp(hist) == Len(hist) >= 3

\* variant of the pinch requirement that is content with one pinching hand
EitherPinching(leftPinching, rightPinching) == leftPinching \/ rightPinching

\* line 435: the directional path needs both hands pinching
BothPinching(leftPinching, rightPinching) == leftPinching /\ rightPinching

analyzeTwoHands(results, hist0, lgt, t, skew) ==
  LET leftHand == results[1]
      rightHand == results[2]
      leftPinching == IsPinching(distance(leftHand.l4, leftHand.l8))
      rightPinching == IsPinching(distance(rightHand.l4, rightHand.l8))
      currentMeasurement ==
        Measurement(t, Center(leftHand.l4, leftHand.l8), Center(rightHand.l4, rightHand.l8))
      hist == HistoryPush(hist0, currentMeasurement)
      dir == detectTwoHandDirection(currentMeasurement, hist, lgt, t + skew)
  IN  IF Undefined \in {leftHand.l4, leftHand.l8, rightHand.l4, rightHand.l8}
      THEN TwoResult(TypeError, hist0, lgt, t)   \* lines 429-430
      ELSE IF ~BothPinching(leftPinching, rightPinching)
      THEN ClapBranch(leftHand, rightHand, hist0, lgt, t, skew)
      ELSE IF WarmedUp(hist)
      THEN TwoResult(dir.gesture, hist, dir.lgt, dir.clock)
      ELSE TwoResult(Null, hist, lgt, t)

----------------------------------------------------------------------------
(* detectGestures, MediaPipeTest.tsx:311-335                               *)

FrameResult(g, buf, hist, lgt, t) ==
  [gesture |-> g, buf |-> buf, hist |-> hist, lgt |-> lgt, clock |-> t]

\* lines 317-325
SingleHandPath(results, buf, hist, lgt, t, skew) ==
  LET r == analyzeSingleHand(results[1], results[1].label, buf, lgt, t, skew)
  IN  FrameResult(r.gesture, r.buf, hist, r.lgt, r.clock)

\* lines 328-334
TwoHandPath(results, buf, hist, lgt, t, skew) ==
  LET r == analyzeTwoHands(results, hist, lgt, t, skew)
  IN  FrameResult(r.gesture, buf, r.hist, r.lgt, r.clock)

\* variant that classifies the first hand of any frame that has hands
detectGesturesFirstHand(results, buf, hist, lgt, t, skew) ==
  IF Len(results) = 0 THEN FrameResult(Null, buf, hist, lgt, t)
  ELSE SingleHandPath(results, buf, hist, lgt, t, skew)

detectGestures(results, buf, hist, lgt, t, skew) ==
  IF Len(results) = 0 THEN FrameResult(Null, buf, hist, lgt, t)
  ELSE IF Len(results) = 1 THEN SingleHandPath(results, buf, hist, lgt, t, skew)
  ELSE IF Len(results) = 2 THEN TwoHandPath(results, buf, hist, lgt, t, skew)
  ELSE FrameResult(Null, buf, hist, lgt, t)

----------------------------------------------------------------------------
(* emitGesture, MediaPipeTest.tsx:808-822                                  *)

\* The callbacks a subscriber may register: a function that returns, one
\* that throws, and one that calls the function subscribe returned for
\* onGesture, when there is one, and returns.
PlainCallbacks == {"onGesture"}
ThrowingCallbacks == {"onGestureThrows"}
UnsubscribingCallbacks == {"onGestureUnsubscribes"}
Throws(cb) == cb \in ThrowingCallbacks

\* lines 826-828: the function closes over `callback` alone
UnsubscribeOf(cb) == [callback |-> cb, calls |-> 0]

\* line 827: a new array without any element that is `callback`; the array
\* that was this.callbacks is left as it was
FilterOut(cbs, callback) == SelectSeq(cbs, LAMBDA cb : cb # callback)

\* a call of an unsubscribe function is counted as the first or as a repeat
Called(closure) == [closure EXCEPT !.calls = IF @ = 0 THEN 1 ELSE 2]

\* the unsubscribe function an unsubscribing callback holds: the first that
\* subscribe returned for onGesture (0: none yet)
HeldUnsubscribe(closures) ==
  IF \E i \in 1..Len(closures) : closures[i].callback \in PlainCallbacks
  THEN CHOOSE i \in 1..Len(closures) :
         /\ closures[i].callback \in PlainCallbacks
         /\ \A j \in 1..(i - 1) : closures[j].callback \notin PlainCallbacks
  ELSE 0
CallsUnsubscribe(cb) ==
  cb \in UnsubscribingCallbacks /\ HeldUnsubscribe(unsubscribes) # 0

\* line 821: Array.prototype.forEach calls the elements in index order; an
\* exception thrown by a callback leaves forEach at once.
RECURSIVE ForEachCallback(_, _)
ForEachCallback(arr, k) ==
  IF k > Len(arr) THEN [receivers |-> << >>, threw |-> FALSE, unsubscribing |-> << >>]
  ELSE IF Throws(arr[k])
  THEN [receivers |-> <<arr[k]>>, threw |-> TRUE, unsubscribing |-> <<FALSE>>]
  ELSE LET rest == ForEachCallback(arr, k + 1)
       IN  [receivers |-> <<arr[k]>> \o rest.receivers, threw |-> rest.threw,
            unsubscribing |-> <<CallsUnsubscribe(arr[k])>> \o rest.unsubscribing]

\* this.callbacks and the unsubscribe functions after a forEach in which
\* the callbacks flagged in `unsubscribing` called the function they hold
AfterForEach(cbs, unsubscribing) ==
  IF \E k \in 1..Len(unsubscribing) : unsubscribing[k]
  THEN LET h == HeldUnsubscribe(unsubscribes)
           once == [unsubscribes EXCEPT ![h] = Called(@)]
       IN  [callbacks |-> FilterOut(cbs, unsubscribes[h].callback),
            unsubscribes |->
              IF Cardinality({k \in 1..Len(unsubscribing) : unsubscribing[k]}) > 1
              THEN [once EXCEPT ![h] = Called(@)] ELSE once]
  ELSE [callbacks |-> cbs, unsubscribes |-> unsubscribes]

\* variant of the filter with the bar at 0.90
FilteredBelowNinety(gesture) == gesture.confidence < 2160

\* lines 810-813
FilteredLowConfidence(gesture) == gesture.confidence < MIN_CONFIDENCE_THRESHOLD

\* the entries emitGesture adds to the record of publications
emitGesture(gesture, cbs) ==
  IF FilteredLowConfidence(gesture)
  THEN [entries |-> << >>, threw |-> FALSE, callbacks |-> cbs,
        unsubscribes |-> unsubscribes]
  ELSE LET d == ForEachCallback(cbs, 1)
           after == AfterForEach(cbs, d.unsubscribing)
       IN  [entries |-> <<[event |-> gesture, subscribed |-> cbs,
                           receivers |-> d.receivers, threw |-> d.threw,
                           unsubscribing |-> d.unsubscribing]>>,
            threw |-> d.threw, callbacks |-> after.callbacks,
            unsubscribes |-> after.unsubscribes]

\* the bookkeeping of deliveries: the timestamp of each delivered event
\* computed from hand data, under its type and handedness
DeliveryKey(event) == event.type \o "/" \o event.handedness
RECURSIVE Record(_, _)
Record(log, entries) ==
  IF entries = << >> THEN log
  ELSE LET e == Head(entries)
       IN  Record(IF e.receivers # << >> /\ ~e.event.simulated
                  THEN MapSet(log, DeliveryKey(e.event), e.event.timestamp)
                  ELSE log,
                  Tail(entries))

\* lines 322-324, 331-333: a classifier's null is not emitted
EmitIfAny(gesture, cbs) ==
  IF gesture = Null
  THEN [entries |-> << >>, threw |-> FALSE, callbacks |-> cbs,
        unsubscribes |-> unsubscribes]
  ELSE IF gesture = TypeError
  THEN [entries |-> << >>, threw |-> TRUE, callbacks |-> cbs,
        unsubscribes |-> unsubscribes]
  ELSE emitGesture(gesture, cbs)

----------------------------------------------------------------------------
(* Inputs.  A hand is the landmarks the tracker reads: wrist (0), thumb    *)
(* tip (4), index tip (8), middle MCP (9), pinky tip (20), and the label   *)
(* of multiHandedness.                                                     *)

Hand(label, l0, l4, l8, l9, l20) ==
  [label |-> label, l0 |-> l0, l4 |-> l4, l8 |-> l8, l9 |-> l9, l20 |-> l20]

Labels == {"Left", "Right"}

\* wrist positions of a single hand: 0 and 3 units apart are below
\* MAX_HAND_JITTER, 4 units is at it, 7 units above
Wrists == {Pt(50, 60), Pt(53, 60), Pt(57, 60)}

\* thumb-index 6 (pinch), index-pinky 30
PinchHand(label, w) == Hand(label, w, Pt(57, 40), Pt(63, 40), Pt(60, 50), Pt(63, 70))
\* thumb-index 10 (at the threshold: no pinch), index-pinky 51 (spread)
SpreadHand(label, w) == Hand(label, w, Pt(55, 40), Pt(65, 40), Pt(60, 50), Pt(65, 91))
\* thumb-index 10, index-pinky 50 (at the threshold: no spread)
OpenHand(label, w) == Hand(label, w, Pt(55, 40), Pt(65, 40), Pt(60, 50), Pt(65, 90))
\* thumb-index 10 (no pinch), index-pinky 60 (0.30: spread)
WideHand(label, w) == Hand(label, w, Pt(55, 40), Pt(65, 40), Pt(60, 50), Pt(65, 100))
\* thumb-index 6 (pinch) and index-pinky 60 (spread)
PinchSpreadHand(label, w) == Hand(label, w, Pt(57, 40), Pt(63, 40), Pt(60, 50), Pt(63, 100))

SingleHands ==
  UNION {{PinchHand("Left", w), SpreadHand("Left", w), OpenHand("Left", w),
          PinchSpreadHand("Left", w), PinchHand("Right", w)} : w \in Wrists}

\* Two hands: the left pinch centre is (30, 30), the right one is sep away;
\* a pinching hand holds thumb and index 6 apart, an open one 10 apart; the
\* middle MCPs are mdist apart.
TwoHands(leftPinching, rightPinching, sep, mdist) ==
  LET lo == IF leftPinching THEN 3 ELSE 5
      ro == IF rightPinching THEN 3 ELSE 5
      rx == 30 + sep[1]
      ry == 30 + sep[2]
  IN  << Hand("Left", Pt(30, 60), Pt(30 - lo, 30), Pt(30 + lo, 30), Pt(30, 50),
              Pt(30 + lo, 45)),
         Hand("Right", Pt(70, 60), Pt(rx - ro, ry), Pt(rx + ro, ry), Pt(30 + mdist, 50),
              Pt(rx + ro, ry + 15)) >>

\* separations of the pinch centres, 40, 49 and 65 units long: between the
\* first two the change is horizontal (9 = MIN_DISTANCE_CHANGE), between the
\* last two vertical, between the first and the last neither
Separations == {<<40, 0>>, <<49, 0>>, <<60, 25>>}
\* both pinching, the middle MCPs 12 apart (closer than CLAP_DISTANCE)
PinchingPairs == {TwoHands(TRUE, TRUE, sep, 12) : sep \in Separations}
\* not both pinching, the middle MCPs 18, 23 and 24 (= CLAP_DISTANCE) apart
OpenPairs ==
  {TwoHands(FALSE, FALSE, <<40, 0>>, 18), TwoHands(TRUE, FALSE, <<40, 0>>, 23),
   TwoHands(FALSE, TRUE, <<40, 0>>, 24)}

\* every distance the tracker takes inside one frame is a whole number of
\* units, and every pinch centre has whole coordinates
ExactHand(h) ==
  /\ IsSquare(Dist2(h.l4, h.l8)) /\ IsSquare(Dist2(h.l8, h.l20))
  /\ (h.l4.x + h.l8.x) % 2 = 0 /\ (h.l4.y + h.l8.y) % 2 = 0
ExactResults(r) ==
  /\ \A i \in 1..Len(r) : ExactHand(r[i])
  /\ Len(r) = 2 => /\ IsSquare(Dist2(r[1].l9, r[2].l9))
                   /\ IsSquare(Dist2(Center(r[1].l4, r[1].l8), Center(r[2].l4, r[2].l8)))

\* the first n landmarks of a hand (indices 0 .. n - 1)
Truncated(h, n) ==
  [label |-> h.label, l0 |-> IF n > 0 THEN h.l0 ELSE Undefined,
   l4 |-> IF n > 4 THEN h.l4 ELSE Undefined, l8 |-> IF n > 8 THEN h.l8 ELSE Undefined,
   l9 |-> IF n > 9 THEN h.l9 ELSE Undefined, l20 |-> IF n > 20 THEN h.l20 ELSE Undefined]

\* the same two hands, both reported with one label
SameLabel(results, label) ==
  <<[results[1] EXCEPT !.label = label], [results[2] EXCEPT !.label = label]>>

NoHands == << >>
AllResults ==
  {r \in {NoHands} \cup {<<h>> : h \in SingleHands} \cup PinchingPairs \cup OpenPairs :
     ExactResults(r)}

\* time between two handlers, and between two clock reads of one handler
Delays == {150, 249}
Skews == {0, 1}

\* Math.random() of simulateNext, in 480ths (0.2 = 480 confidence units)
Randoms == {0, 479}

----------------------------------------------------------------------------
(* The state after `new RobustMediaPipeTracker()`, MediaPipeTest.tsx:6-18  *)
(* and 855.                                                                *)

\* the buffers of a tracker just constructed, and no event emitted yet
FreshTracker ==
  [buf |-> << >>, hist |-> << >>, lgt |-> EmptyMap, emitted |-> << >>, thrown |-> FALSE]

\* handTracking.ts:107-112 and 9-12: the fields of `new MediaPipeHandTracker()`;
\* camera is the progress of this.camera, loops the frame loops with an
\* animation frame requested, sending the hands.send calls in flight, ops the
\* initialize and destroy calls so far
\* src/unnamed/part_001:8-16; resizeValue in tenths.  clock is Date.now() as
\* the component reads it, count the gestures executed so far.
FreshStretchTest ==
  [gestureCommands |-> [createCube |-> FALSE, selectCube |-> FALSE, resizeValue |-> 10,
                        togglePhysics |-> FALSE],
   lastGestureTime |-> EmptyMap, clock |-> StartClock, count |-> 0]

\* src/unnamed/part_000:118-135; resizeValue and stretchIntensity in tenths,
\* handPosition in fortieths.  clock is Date.now() as the component reads it,
\* frame the results of the last processHandResults, executed the gestures it
\* took to executeGesture with the index of their hand, lastToggle the time of
\* the last toggle of createCube or selectCube, count the frames so far.
FreshFistTest ==
  [gestureCommands |-> [createCube |-> FALSE, selectCube |-> FALSE, resizeValue |-> 10,
                        moveCube |-> FALSE, handPosition |-> [x |-> 0, y |-> 0, z |-> 0],
                        leftHandStretch |-> FALSE, stretchDirection |-> "none",
                        stretchIntensity |-> 10],
   handsDetected |-> [count |-> 0, leftHand |-> FALSE, rightHand |-> FALSE],
   lastGestureTime |-> 0, clock |-> StartClock, frame |-> << >>, executed |-> << >>,
   lastToggle |-> 0, count |-> 0]

FreshHandTracker ==
  [hands |-> "none", camera |-> "none", loops |-> 0, sending |-> 0, closedSending |-> 0,
   isInitialized |-> FALSE, callbacks |-> << >>, unsubscribes |-> << >>,
   lastResults |-> Null, ops |-> 0]

Init ==
  /\ clock = StartClock
  /\ handStabilityBuffer = << >>
  /\ twoHandHistory = << >>
  /\ lastGestureTime = EmptyMap
  /\ callbacks = << >>
  /\ unsubscribes = << >>
  /\ isInitialized = FALSE
  /\ hands = "none"
  /\ sending = 0
  /\ closedSending = 0
  /\ rafPending = 0
  /\ simTimers = << >>
  /\ frame = NoHands
  /\ lastDelivered = EmptyMap
  /\ emitted = << >>
  /\ thrown = FALSE
  /\ destroyed = FALSE
  /\ lastOp = "new"
  /\ steps = [frames |-> 0, sims |-> 0, life |-> 0]
  /\ replica = FreshTracker
  /\ handTracker = FreshHandTracker
  /\ stretchTest = FreshStretchTest
  /\ fistTest = FreshFistTest

----------------------------------------------------------------------------
(* subscribe, MediaPipeTest.tsx:824-829                                    *)

Subscribe(cb) ==
  /\ callbacks' = Append(callbacks, cb)
  /\ unsubscribes' = Append(unsubscribes, UnsubscribeOf(cb))
  /\ lastOp' = "subscribe"
  /\ emitted' = << >>
  /\ thrown' = FALSE
  /\ UNCHANGED <<handTracker, testVars, replica, clock, engineVars, isInitialized, loopVars, simTimers, frame,
                 lastDelivered, destroyed, steps>>

\* the function subscribe returned, lines 826-828, called
Unsubscribe(i) ==
  /\ i \in 1..Len(unsubscribes)
  /\ callbacks' = FilterOut(callbacks, unsubscribes[i].callback)
  /\ unsubscribes' = [unsubscribes EXCEPT ![i] = Called(@)]
  /\ lastOp' = "unsubscribe"
  /\ emitted' = << >>
  /\ thrown' = FALSE
  /\ UNCHANGED <<handTracker, testVars, replica, clock, engineVars, isInitialized, loopVars, simTimers, frame,
                 lastDelivered, destroyed, steps>>

----------------------------------------------------------------------------
(* onHandResults, MediaPipeTest.tsx:157-180: the drawing aside, it is      *)
(* detectGestures(results).  dt is the time since the last handler.        *)

HandleResults(results, dt, skew) ==
  \E r \in {detectGestures(results, handStabilityBuffer, twoHandHistory,
                             lastGestureTime, clock + dt, skew)} :
    \E e \in {EmitIfAny(r.gesture, callbacks)} :
      /\ clock' = r.clock
      /\ handStabilityBuffer' = r.buf
      /\ twoHandHistory' = r.hist
      /\ lastGestureTime' = r.lgt
      /\ frame' = results
      /\ emitted' = e.entries
      /\ lastDelivered' = Record(lastDelivered, e.entries)
      /\ thrown' = e.threw
      /\ callbacks' = e.callbacks
      /\ unsubscribes' = e.unsubscribes
      /\ lastOp' = "frame"
      /\ steps' = [steps EXCEPT !.frames = @ + 1]
      /\ UNCHANGED <<isInitialized, simTimers, destroyed>>

\* the landmark detector calls the results callback with any results
OnHandResults(results, dt, skew) ==
  /\ HandleResults(results, dt, skew)
  /\ UNCHANGED <<loopVars, replica, handTracker, testVars>>

----------------------------------------------------------------------------
(* The tracker under any sequence of results with at most one hand         *)
(* (SpecSingle) and with two hands or none (SpecPair), and subscriptions.  *)

SingleResults == {r \in AllResults : Len(r) <= 1}
PairResults == {r \in AllResults : Len(r) # 1}

SubscribePlain ==
  /\ Len(callbacks) < MaxCallbacks
  /\ \E cb \in PlainCallbacks : Subscribe(cb)

SingleFrame ==
  /\ steps.frames < MaxSingleFrames
  /\ \E results \in SingleResults, dt \in Delays, skew \in Skews :
       OnHandResults(results, dt, skew)

PairFrame ==
  /\ steps.frames < MaxPairFrames
  /\ \E results \in PairResults, dt \in Delays, skew \in Skews :
       OnHandResults(results, dt, skew)

NextSingle == SubscribePlain \/ SingleFrame
NextPair == SubscribePlain \/ PairFrame

SpecSingle == Init /\ [][NextSingle]_vars
SpecPair == Init /\ [][NextPair]_vars

----------------------------------------------------------------------------
(* Two trackers given the same frames.  A frame carries no timestamp into  *)
(* detectGestures (MediaPipeTest.tsx:311): each tracker reads Date.now()   *)
(* itself, at line 355 or 438 and again at line 725 or 446.  Both trackers *)
(* are taken to make their first read at the same instant t; the second    *)
(* read of each is its own.                                                *)

MaxReplayFrames == 4

\* frames at one steady pace, and a handler whose two clock reads agree
SteadyDelays == {249}
SteadySkews == {0}

\* detectGestures and emitGesture of the second tracker, which has the same
\* subscribers
ReplicaHandle(results, t, skew) ==
  \E r \in {detectGestures(results, replica.buf, replica.hist, replica.lgt, t, skew)} :
    \E e \in {EmitIfAny(r.gesture, callbacks)} :
      replica' = [buf |-> r.buf, hist |-> r.hist, lgt |-> r.lgt,
                  emitted |-> e.entries, thrown |-> e.threw]

ReplayResults ==
  {NoHands, <<PinchHand("Right", Pt(50, 60))>>, TwoHands(FALSE, FALSE, <<40, 0>>, 18),
   TwoHands(TRUE, TRUE, <<40, 0>>, 12), TwoHands(TRUE, TRUE, <<49, 0>>, 12),
   SameLabel(TwoHands(FALSE, FALSE, <<40, 0>>, 18), "Left"),
   SameLabel(TwoHands(TRUE, TRUE, <<49, 0>>, 12), "Left")}

ReplayFrame ==
  /\ steps.frames < MaxReplayFrames
  /\ \E results \in ReplayResults, dt \in SteadyDelays, skew \in Skews, skew2 \in Skews :
       /\ HandleResults(results, dt, skew)
       /\ ReplicaHandle(results, clock + dt, skew2)
       /\ UNCHANGED <<loopVars, handTracker, testVars>>

\* Frames whose hands carry fewer than the 21 landmarks: 10 (indices 0-9)
\* and 9 (indices 0-8), among well-formed frames
MaxShortFrames == 4
ShortLengths == {9, 10}

ShortResults ==
  UNION {{ <<Truncated(PinchHand("Right", Pt(50, 60)), n)>>,
           <<Truncated(TwoHands(FALSE, FALSE, <<40, 0>>, 18)[1], n),
             Truncated(TwoHands(FALSE, FALSE, <<40, 0>>, 18)[2], n)>>,
           <<Truncated(TwoHands(TRUE, TRUE, <<40, 0>>, 12)[1], n),
             TwoHands(TRUE, TRUE, <<40, 0>>, 12)[2]>> } : n \in ShortLengths}
    \cup {<<PinchHand("Right", Pt(50, 60))>>}

ShortFrame ==
  /\ steps.frames < MaxShortFrames
  /\ \E results \in ShortResults, dt \in Delays, skew \in Skews :
       OnHandResults(results, dt, skew)

NextShort == SubscribePlain \/ ShortFrame
SpecShort == Init /\ [][NextShort]_vars

NextReplay == SubscribePlain \/ ReplayFrame
SpecReplay == Init /\ [][NextReplay]_vars

\* One right hand held still: pinching, with the fingers spread or not, or
\* open with the fingers spread.
MaxHoldFrames == 7

HoldResults ==
  {<<PinchHand("Right", Pt(50, 60))>>, <<PinchSpreadHand("Right", Pt(50, 60))>>,
   <<WideHand("Right", Pt(50, 60))>>}

HoldFrame ==
  /\ steps.frames < MaxHoldFrames
  /\ \E results \in HoldResults, dt \in Delays, skew \in Skews :
       OnHandResults(results, dt, skew)

NextHold == SubscribePlain \/ HoldFrame
SpecHold == Init /\ [][NextHold]_vars

\* Long runs: one still hand, joined later by the other one, both pinching
\* at two separations.
MaxWindowFrames == 13

WindowResults ==
  {TwoHands(TRUE, TRUE, <<40, 0>>, 12), TwoHands(TRUE, TRUE, <<49, 0>>, 12)}
    \cup (IF twoHandHistory = << >> THEN {<<PinchHand("Right", Pt(50, 60))>>} ELSE {})

WindowFrame ==
  /\ steps.frames < MaxWindowFrames
  /\ \E results \in WindowResults, dt \in SteadyDelays, skew \in SteadySkews :
       OnHandResults(results, dt, skew)

NextWindow == SubscribePlain \/ WindowFrame
SpecWindow == Init /\ [][NextWindow]_vars

\* Single-hand frames of either hand; the second tracker is shown the
\* frames of the right hand only, at the same clock readings.
MaxEitherFrames == 4

EitherResults ==
  {<<PinchHand(label, w)>> : label \in Labels, w \in {Pt(50, 60), Pt(57, 60)}}

EitherFrame ==
  /\ steps.frames < MaxEitherFrames
  /\ \E results \in EitherResults, dt \in Delays, skew \in Skews :
       /\ HandleResults(results, dt, skew)
       /\ IF results[1].label = "Right"
          THEN ReplicaHandle(results, clock + dt, skew)
          ELSE UNCHANGED replica
       /\ UNCHANGED <<loopVars, handTracker, testVars>>

NextEither == SubscribePlain \/ EitherFrame
SpecEither == Init /\ [][NextEither]_vars

----------------------------------------------------------------------------
(* startGestureSimulation, MediaPipeTest.tsx:747-806                       *)

\* lines 750-760
SimGestures ==
  << [type |-> "PINCH", duration |-> 1500, handedness |-> "Right"],
     [type |-> "PINCH", duration |-> 1200, handedness |-> "Left"],
     [type |-> "SPREAD", duration |-> 1000, handedness |-> "Right"],
     [type |-> "STRETCH_VERTICAL", duration |-> 1200, handedness |-> "Both"],
     [type |-> "SHRINK_VERTICAL", duration |-> 1000, handedness |-> "Both"],
     [type |-> "STRETCH_HORIZONTAL", duration |-> 1100, handedness |-> "Both"],
     [type |-> "SHRINK_HORIZONTAL", duration |-> 900, handedness |-> "Both"],
     [type |-> "CLAP", duration |-> 800, handedness |-> "Both"],
     [type |-> "RELEASE", duration |-> 600, handedness |-> "Right"] >>

\* type.includes(...) of lines 771-773
IncludesStretch(type) == type \in {"STRETCH_VERTICAL", "STRETCH_HORIZONTAL"}
IncludesShrink(type) == type \in {"SHRINK_VERTICAL", "SHRINK_HORIZONTAL"}
IncludesVertical(type) == type \in {"STRETCH_VERTICAL", "SHRINK_VERTICAL"}

\* variant of the simulated confidence with twice the random share
SimConfidenceWide(rnd) == MIN_CONFIDENCE_THRESHOLD + 2 * rnd

\* line 790: 0.75 + Math.random() * 0.2, rnd being the random share
SimConfidence(rnd) == MIN_CONFIDENCE_THRESHOLD + rnd

\* lines 771-783: 0.03 + Math.random() * 0.04 is between 6 and 14 units,
\* the distances are workloads of the display only
SimChanges == {6, 13}
SimExtra(type, change) ==
  IF IncludesStretch(type) \/ IncludesShrink(type)
  THEN [direction |-> IF IncludesVertical(type) THEN "vertical" ELSE "horizontal",
        distance |-> 30,
        distanceChange |-> (IF IncludesStretch(type) THEN 1 ELSE -1) * change]
  ELSE IF type = "CLAP"
  THEN [direction |-> "", distance |-> 10, distanceChange |-> 0]
  ELSE [direction |-> "", distance |-> 0, distanceChange |-> 0]

\* lines 785-799: the event simulateNext hands to emitGesture
SimEvent(currentIndex, rnd, change, now) ==
  LET gesture == SimGestures[(currentIndex % Len(SimGestures)) + 1]
      extraData == SimExtra(gesture.type, change)
  IN  Gesture(gesture.type, gesture.handedness, SimConfidence(rnd), now,
              extraData.distance, extraData.distanceChange, extraData.direction, TRUE)

\* line 805 and line 802: the first timer, and the next one of a chain
FirstTimer(now) == [currentIndex |-> 0, due |-> now + 1000]
NextTimer(timer, now) ==
  [currentIndex |-> timer.currentIndex + 1,
   due |-> now + SimGestures[(timer.currentIndex % Len(SimGestures)) + 1].duration + 400]

RemoveAt(s, i) == SubSeq(s, 1, i - 1) \o SubSeq(s, i + 1, Len(s))

\* simulateNext, lines 764-803, run by the timer of chain c.  An exception
\* of a callback leaves simulateNext before line 801, so the chain is not
\* rescheduled.
SimulateNext(c, rnd, change) ==
  /\ c \in 1..Len(simTimers)
  /\ LET now == Max(clock, simTimers[c].due)
         e == emitGesture(SimEvent(simTimers[c].currentIndex, rnd, change, now), callbacks)
     IN  /\ clock' = now
         /\ emitted' = e.entries
         /\ thrown' = e.threw
         /\ callbacks' = e.callbacks
         /\ unsubscribes' = e.unsubscribes
         /\ simTimers' = IF e.threw THEN RemoveAt(simTimers, c)
                         ELSE [simTimers EXCEPT ![c] = NextTimer(simTimers[c], now)]
  /\ lastOp' = "simulate"
  /\ steps' = [steps EXCEPT !.sims = @ + 1]
  /\ UNCHANGED <<handTracker, testVars, replica, engineVars, isInitialized, loopVars, frame, destroyed,
                 lastDelivered>>

----------------------------------------------------------------------------
(* initialize, MediaPipeTest.tsx:30-75, from the point where its awaits    *)
(* have settled: either initializeMediaPipe (77-137) runs to its end, or   *)
(* the catch block starts the simulation.                                  *)

\* lines 139-155, the first processFrame of startFrameProcessing: with the
\* video ready a send starts; otherwise line 149 reads isInitialized, which
\* line 130 has not set yet
InitializeMediaPipe(ready) ==
  /\ hands' = "open"
  /\ sending' = IF ready THEN sending + 1 ELSE sending
  /\ rafPending' = IF ~ready /\ isInitialized THEN rafPending + 1 ELSE rafPending
  /\ isInitialized' = TRUE
  /\ destroyed' = FALSE
  /\ lastOp' = "initialize"
  /\ emitted' = << >>
  /\ thrown' = FALSE
  /\ steps' = [steps EXCEPT !.life = @ + 1]
  /\ UNCHANGED <<unsubscribes, handTracker, testVars, replica, clock, engineVars, callbacks, closedSending, simTimers, frame,
                 lastDelivered>>

\* lines 69-74: the fallback
InitializeFallback ==
  /\ simTimers' = Append(simTimers, FirstTimer(clock))
  /\ destroyed' = FALSE
  /\ lastOp' = "initialize"
  /\ emitted' = << >>
  /\ thrown' = FALSE
  /\ steps' = [steps EXCEPT !.life = @ + 1]
  /\ UNCHANGED <<unsubscribes, handTracker, testVars, replica, clock, engineVars, callbacks, isInitialized, loopVars, frame,
                 lastDelivered>>

----------------------------------------------------------------------------
(* processFrame, MediaPipeTest.tsx:140-152                                 *)

\* a pending animation frame runs processFrame up to its await, or to its
\* end when nothing is sent
RafFires(ready) ==
  /\ rafPending > 0
  /\ IF ready /\ hands = "open"
     THEN /\ sending' = sending + 1
          /\ rafPending' = rafPending - 1
          /\ UNCHANGED closedSending
     ELSE IF ready /\ hands = "closed"
     THEN /\ closedSending' = closedSending + 1
          /\ rafPending' = rafPending - 1
          /\ UNCHANGED sending
     ELSE /\ rafPending' = IF isInitialized THEN rafPending ELSE rafPending - 1
          /\ UNCHANGED <<sending, closedSending>>
  /\ lastOp' = "raf"
  /\ emitted' = << >>
  /\ thrown' = FALSE
  /\ UNCHANGED <<unsubscribes, handTracker, testVars, replica, clock, engineVars, callbacks, isInitialized, hands, simTimers, frame,
                 lastDelivered, destroyed, steps>>

\* line 149-151 after the await
Reschedule(pending) == IF isInitialized THEN pending + 1 ELSE pending

\* hands.send calls onHandResults and resolves
SendCompletes(results, dt, skew) ==
  /\ sending > 0
  /\ hands = "open"
  /\ HandleResults(results, dt, skew)
  /\ sending' = sending - 1
  /\ rafPending' = Reschedule(rafPending)
  /\ UNCHANGED <<hands, closedSending, replica, handTracker, testVars>>

\* hands.send rejects (line 144-146 logs it): the only end of a send on a
\* closed detector
SendFails ==
  /\ \/ sending > 0 /\ sending' = sending - 1 /\ UNCHANGED closedSending
     \/ closedSending > 0 /\ closedSending' = closedSending - 1 /\ UNCHANGED sending
  /\ rafPending' = Reschedule(rafPending)
  /\ lastOp' = "sendError"
  /\ emitted' = << >>
  /\ thrown' = FALSE
  /\ UNCHANGED <<unsubscribes, handTracker, testVars, replica, clock, engineVars, callbacks, isInitialized, hands, simTimers, frame,
                 lastDelivered, destroyed, steps>>

----------------------------------------------------------------------------
(* destroy, MediaPipeTest.tsx:831-853                                      *)

Destroy ==
  /\ isInitialized' = FALSE
  /\ twoHandHistory' = << >>
  /\ handStabilityBuffer' = << >>
  /\ lastGestureTime' = EmptyMap
  /\ hands' = IF hands = "none" THEN "none" ELSE "closed"
  /\ closedSending' = closedSending + sending
  /\ sending' = 0
  /\ destroyed' = TRUE
  /\ lastOp' = "destroy"
  /\ emitted' = << >>
  /\ thrown' = FALSE
  /\ steps' = [steps EXCEPT !.life = @ + 1]
  /\ UNCHANGED <<unsubscribes, handTracker, testVars, replica, clock, callbacks, rafPending, simTimers, frame, lastDelivered>>

----------------------------------------------------------------------------
(* The tracker as the page drives it (MediaPipeTest.tsx:866-908):          *)
(* initialize, subscribe and destroy in any order, the frame loop and the  *)
(* simulation timers in between.                                           *)

\* The scene in front of the camera, one result of the detector after the
\* other: a right hand at rest pinches for four frames and spreads, two
\* pinching hands move 9 units apart, two open hands meet.  The loop gets a
\* result every 249 ms and the clock does not move inside a handler.
LoopScene ==
  << <<PinchHand("Right", Pt(50, 60))>>, <<PinchHand("Right", Pt(50, 60))>>,
     <<PinchHand("Right", Pt(50, 60))>>, <<PinchHand("Right", Pt(50, 60))>>,
     <<SpreadHand("Right", Pt(50, 60))>>,
     TwoHands(TRUE, TRUE, <<40, 0>>, 12), TwoHands(TRUE, TRUE, <<40, 0>>, 12),
     TwoHands(TRUE, TRUE, <<49, 0>>, 12), TwoHands(FALSE, FALSE, <<40, 0>>, 18) >>
LoopResults == {LoopScene[(steps.frames % Len(LoopScene)) + 1]}
LoopDelays == {249}
LoopSkews == {0}

SubscribeAny ==
  /\ Len(callbacks) < MaxSubscribers
  /\ \E cb \in PlainCallbacks \cup ThrowingCallbacks : Subscribe(cb)

Initialize ==
  /\ steps.life < MaxLifeOps
  /\ \/ \E ready \in BOOLEAN : InitializeMediaPipe(ready)
     \/ InitializeFallback

Stop == steps.life < MaxLifeOps /\ Destroy

LoopStep ==
  \/ \E ready \in BOOLEAN : RafFires(ready)
  \/ SendFails
  \/ /\ steps.frames < MaxLifeFrames
     /\ \E results \in LoopResults, dt \in LoopDelays, skew \in LoopSkews :
          SendCompletes(results, dt, skew)

SimStep ==
  /\ steps.sims < MaxSims
  /\ \E c \in 1..Len(simTimers), rnd \in Randoms, change \in SimChanges :
       SimulateNext(c, rnd, change)

Next == SubscribeAny \/ Initialize \/ Stop \/ LoopStep \/ SimStep

Spec == Init /\ [][Next]_vars

----------------------------------------------------------------------------
(* MediaPipeHandTracker and its Camera, handTracking.ts                    *)

robustVars ==
  <<clock, engineVars, callbacks, unsubscribes, isInitialized, loopVars, simTimers, frame,
    emitted,
    lastDelivered, thrown, destroyed, lastOp, steps, replica>>

MaxTrackerOps == 3
MaxInFlight == 2

\* initialize, lines 143-178, up to the await inside camera.start() (line
\* 23); a Camera whose start() is pending is not replaced
HTInitialize ==
  /\ handTracker.camera \notin {"starting", "stoppedStarting"}
  /\ handTracker' = [handTracker EXCEPT !.hands = "open", !.camera = "starting",
                                         !.ops = @ + 1]
  /\ UNCHANGED <<robustVars, testVars>>

\* processFrame of startFrameLoop, lines 44-49, up to the await of onFrame
\* (lines 170-174); the frame is requested again whatever onFrame does
FrameCallback(ht, ready) ==
  IF ready /\ ht.hands = "open" THEN [ht EXCEPT !.sending = @ + 1]
  ELSE IF ready /\ ht.hands = "closed" THEN [ht EXCEPT !.closedSending = @ + 1]
  ELSE ht

\* the video's metadata arrive: lines 35-39 start the frame loop and resolve,
\* initialize resumes at line 181
HTCameraStarts(ready) ==
  /\ handTracker.camera \in {"starting", "stoppedStarting"}
  /\ handTracker' =
       [FrameCallback(handTracker, ready) EXCEPT !.camera = "running", !.loops = @ + 1,
                                                 !.isInitialized = TRUE]
  /\ UNCHANGED <<robustVars, testVars>>

\* a requested animation frame runs processFrame
CameraTick(ready) ==
  /\ handTracker.loops > 0
  /\ handTracker.sending < MaxInFlight
  /\ handTracker.closedSending < MaxInFlight
  /\ handTracker' = FrameCallback(handTracker, ready)
  /\ UNCHANGED <<robustVars, testVars>>

\* hands.send calls onResults (lines 196-213) and resolves
HTSendCompletes(results) ==
  /\ handTracker.sending > 0
  /\ handTracker' = [handTracker EXCEPT !.sending = @ - 1, !.lastResults = results]
  /\ UNCHANGED <<robustVars, testVars>>

\* hands.send of a closed detector rejects; onFrame's promise is dropped by
\* line 46
HTSendFails ==
  /\ handTracker.closedSending > 0
  /\ handTracker' = [handTracker EXCEPT !.closedSending = @ - 1]
  /\ UNCHANGED <<robustVars, testVars>>

\* destroy, lines 312-322, with Camera.stop, lines 53-61; this.hands keeps
\* the closed detector, with the sends in flight on it
HTDestroy ==
  /\ handTracker' =
       [handTracker EXCEPT
          !.camera = IF @ = "running" THEN "stopped"
                     ELSE IF @ = "starting" THEN "stoppedStarting" ELSE @,
          !.loops = IF handTracker.camera = "running" THEN @ - 1 ELSE @,
          !.hands = IF @ = "none" THEN "none" ELSE "closed",
          !.closedSending = @ + handTracker.sending,
          !.sending = 0,
          !.callbacks = << >>,
          !.isInitialized = FALSE,
          !.ops = @ + 1]
  /\ UNCHANGED <<robustVars, testVars>>

CameraResults == {NoHands, <<PinchHand("Right", Pt(50, 60))>>}

HTLife ==
  /\ handTracker.ops < MaxTrackerOps
  /\ HTInitialize \/ HTDestroy

HTLoop ==
  \/ \E ready \in BOOLEAN : HTCameraStarts(ready)
  \/ \E ready \in BOOLEAN : CameraTick(ready)
  \/ \E results \in CameraResults : HTSendCompletes(results)
  \/ HTSendFails

NextCamera == HTLife \/ HTLoop
SpecCamera == Init /\ [][NextCamera]_vars

----------------------------------------------------------------------------
(* Subscribers that come and go: subscribe and the functions it returns,   *)
(* of RobustMediaPipeTracker (MediaPipeTest.tsx:824-829) and of            *)
(* handTracker (handTracking.ts:298-306), while the scene is published.    *)
(* handTracker publishes nothing: its emitGestureEvent (lines 276-278) has *)
(* no caller.                                                              *)

\* handTracking.ts:298-299
HTSubscribe(cb) ==
  /\ handTracker' = [handTracker EXCEPT !.callbacks = Append(@, cb),
                                         !.unsubscribes = Append(@, UnsubscribeOf(cb))]
  /\ UNCHANGED <<robustVars, testVars>>

\* line 301, Array.prototype.indexOf: the first index of `callback`, 0 for -1
IndexOf(cbs, callback) ==
  IF \E k \in 1..Len(cbs) : cbs[k] = callback
  THEN CHOOSE k \in 1..Len(cbs) :
         cbs[k] = callback /\ \A j \in 1..(k - 1) : cbs[j] # callback
  ELSE 0

\* lines 301-304
SpliceFirst(cbs, callback) ==
  IF IndexOf(cbs, callback) > 0 THEN RemoveAt(cbs, IndexOf(cbs, callback)) ELSE cbs

\* the function subscribe returned, lines 300-305, called
HTUnsubscribe(i) ==
  /\ i \in 1..Len(handTracker.unsubscribes)
  /\ handTracker' =
       [handTracker EXCEPT
          !.callbacks = SpliceFirst(@, handTracker.unsubscribes[i].callback),
          !.unsubscribes = [@ EXCEPT ![i] = Called(@)]]
  /\ UNCHANGED <<robustVars, testVars>>

SubscribeOf ==
  /\ Len(unsubscribes) < MaxSubscribers
  /\ \E cb \in PlainCallbacks \cup UnsubscribingCallbacks : Subscribe(cb)

UnsubscribeAny == \E i \in 1..Len(unsubscribes) : Unsubscribe(i)

HTSubscribeAny ==
  /\ Len(handTracker.unsubscribes) < MaxSubscribers
  /\ \E cb \in PlainCallbacks : HTSubscribe(cb)

HTUnsubscribeAny == \E i \in 1..Len(handTracker.unsubscribes) : HTUnsubscribe(i)

\* The sources of events alone: the scene handed to onHandResults frame by
\* frame, and simulation chains.
SceneFrame ==
  /\ steps.frames < MaxLifeFrames
  /\ \E results \in LoopResults, dt \in LoopDelays, skew \in LoopSkews :
       OnHandResults(results, dt, skew)

StartSimulation == steps.life < MaxChains /\ InitializeFallback

NextEvents == SubscribePlain \/ StartSimulation \/ SceneFrame \/ SimStep

SpecEvents == Init /\ [][NextEvents]_vars

NextSubscribers ==
  SubscribeOf \/ UnsubscribeAny \/ SceneFrame \/ HTSubscribeAny \/ HTUnsubscribeAny

SpecSubscribers == Init /\ [][NextSubscribers]_vars

----------------------------------------------------------------------------
(* The MediaPipeTest component (MediaPipeTest.tsx:857-908) on the module's *)
(* one tracker (line 855).  The Start button is disabled while isRunning   *)
(* and the Stop button while not (lines 937, 945); start() sets isRunning  *)
(* before its await (line 874) and stop() clears it (line 902).            *)
(* initialize() catches its own failures (lines 69-74), so the             *)
(* continuation of the await of line 876 always subscribes.  Every start() *)
(* registers a new arrow function; the list names them by their code.      *)

MaxStartStops == 3

\* isRunning of the component: start() was called and stop() not since
IsRunning == steps.life > 0 /\ ~destroyed

\* the await of line 876 has settled and its continuation has not run yet
StartAwaits == lastOp = "initialize"

\* lines 866-876
ComponentStart ==
  /\ ~IsRunning
  /\ steps.life < MaxStartStops
  /\ \/ \E ready \in BOOLEAN : InitializeMediaPipe(ready)
     \/ InitializeFallback

\* lines 878-890: the unsubscribe function that subscribe returns is dropped
StartContinues == StartAwaits /\ Subscribe("onGesture")

\* lines 899-906
ComponentStop ==
  /\ IsRunning
  /\ ~StartAwaits
  /\ steps.life < MaxStartStops
  /\ Destroy

\* the continuation of an await that has settled runs before any animation
\* frame, timer or click
ComponentLoop == ~StartAwaits /\ LoopStep
ComponentSim == ~StartAwaits /\ SimStep

NextComponent ==
  ComponentStart \/ StartContinues \/ ComponentStop \/ ComponentLoop \/ ComponentSim

SpecComponent == Init /\ [][NextComponent]_vars

----------------------------------------------------------------------------
(* SimpleHandTrackingTest with the stretch and shrink gestures,            *)
(* src/unnamed/part_001.  executeGesture (lines 295-360) is the one writer *)
(* of gestureCommands while hands are tracked: the keyboard handler (lines *)
(* 362-389) is installed only when the camera or the detector failed       *)
(* (lines 50, 98).  Sizes are in tenths; the caption lastGesture, which    *)
(* nothing reads back, is left out.                                        *)

MaxStretchGestures == 6

STRETCH_DEBOUNCE == 800
RESIZE_STEP == 4
RESIZE_MAX == 30
RESIZE_MIN == 3
RESIZE_RESET == 10

\* variant without the floor
ShrinkUnclamped(resizeValue) == resizeValue - RESIZE_STEP

\* lines 322, 330
Grow(resizeValue) == Min(RESIZE_MAX, resizeValue + RESIZE_STEP)
\* lines 338, 346
Shrink(resizeValue) == Max(RESIZE_MIN, resizeValue - RESIZE_STEP)

\* line 297
StretchKey(gesture) == gesture.type \o "_" \o gesture.handedness

\* lines 307-359, the switch
StretchCommands(commands, gesture) ==
  CASE gesture.type = "PINCH" ->
         IF gesture.handedness = "Right"
         THEN [commands EXCEPT !.createCube = ~@]
         ELSE [commands EXCEPT !.selectCube = ~@]
    [] gesture.type \in {"STRETCH_HORIZONTAL", "STRETCH_VERTICAL"} ->
         [commands EXCEPT !.resizeValue = Grow(@)]
    [] gesture.type \in {"SHRINK_HORIZONTAL", "SHRINK_VERTICAL"} ->
         [commands EXCEPT !.resizeValue = Shrink(@)]
    [] gesture.type = "SPREAD" ->
         IF gesture.handedness = "Right"
         THEN [commands EXCEPT !.resizeValue = RESIZE_RESET]
         ELSE [commands EXCEPT !.togglePhysics = ~@]
    [] OTHER -> commands

\* lines 295-360
executeGestureStretch(test, gesture, currentTime) ==
  IF currentTime - MapGetOrZero(test.lastGestureTime, StretchKey(gesture)) < STRETCH_DEBOUNCE
  THEN [test EXCEPT !.clock = currentTime, !.count = @ + 1]
  ELSE [test EXCEPT
          !.lastGestureTime = MapSet(@, StretchKey(gesture), currentTime),
          !.gestureCommands = StretchCommands(@, gesture),
          !.clock = currentTime, !.count = @ + 1]

\* what detectSingleHandGesture (lines 184-211) and detectTwoHandGesture
\* (lines 213-293) hand to executeGesture
StretchGestures ==
  {[type |-> t, handedness |-> "Both"] :
     t \in {"STRETCH_HORIZONTAL", "STRETCH_VERTICAL", "SHRINK_HORIZONTAL",
            "SHRINK_VERTICAL"}}
  \cup {[type |-> "SPREAD", handedness |-> h] : h \in {"Left", "Right"}}
  \cup {[type |-> "PINCH", handedness |-> "Right"]}
StretchDelays == {400}

StretchGesture ==
  /\ stretchTest.count < MaxStretchGestures
  /\ \E gesture \in StretchGestures, dt \in StretchDelays :
       stretchTest' = executeGestureStretch(stretchTest, gesture, stretchTest.clock + dt)
  /\ UNCHANGED <<robustVars, handTracker, fistTest>>

NextStretch == StretchGesture
SpecStretch == Init /\ [][NextStretch]_vars

----------------------------------------------------------------------------
(* SimpleHandTrackingTest with the fist and pointing gestures,             *)
(* src/unnamed/part_000:110-576.  Landmarks are [x, y, z] in hundredths; a *)
(* hand is its label and the landmarks the detectors read.                 *)

MaxFistFrames == 4

FIST_DEBOUNCE == 1000

P3(px, py, pz) == [x |-> px, y |-> py, z |-> pz]
Dist3Sq(p1, p2) == Dist2(p1, p2) + (p1.z - p2.z) * (p1.z - p2.z)

\* the objects the detectors return
FistTestGesture(type, handedness, handCenter, direction, intensity) ==
  [type |-> type, handedness |-> handedness, handCenter |-> handCenter,
   direction |-> direction, intensity |-> intensity]
NoGesture == FistTestGesture("null", "", P3(0, 0, 0), "", 0)

\* lines 306-340
detectIndexFingerPointing(landmarks, handedness) ==
  LET indexTip == landmarks[8]
      indexMiddle == landmarks[6]
      indexBase == landmarks[5]
      wrist == landmarks[0]
      indexExtended == indexTip.y < indexMiddle.y /\ indexMiddle.y < indexBase.y
      middleFolded == landmarks[12].y > landmarks[10].y
      ringFolded == landmarks[16].y > landmarks[14].y
      pinkyFolded == landmarks[20].y > landmarks[18].y
      thumbNotPointing == Abs(landmarks[4].y - wrist.y) < Abs(indexTip.y - wrist.y)
      pointingUp == indexTip.y < indexBase.y - 5
  IN  IF indexExtended /\ middleFolded /\ ringFolded /\ pinkyFolded /\ thumbNotPointing
         /\ pointingUp
      THEN FistTestGesture("INDEX_POINT_UP", handedness, P3(0, 0, 0), "", 0)
      ELSE NoGesture

\* lines 342-390
detectPalmOpen(landmarks, handedness) ==
  LET wrist == landmarks[0]
      thumbExtended == Dist2(landmarks[4], wrist) > Dist2(landmarks[3], wrist)
      indexExtended == landmarks[8].y < landmarks[6].y
      middleExtended == landmarks[12].y < landmarks[10].y
      ringExtended == landmarks[16].y < landmarks[14].y
      pinkyExtended == landmarks[20].y < landmarks[18].y
      sufficientFingerSpread == Dist2(landmarks[8], landmarks[20]) > 15 * 15
      sufficientThumbSpread == Dist2(landmarks[4], landmarks[8]) > 8 * 8
  IN  IF thumbExtended /\ indexExtended /\ middleExtended /\ ringExtended /\ pinkyExtended
         /\ sufficientFingerSpread /\ sufficientThumbSpread
      THEN FistTestGesture("PALM_OPEN", handedness, P3(0, 0, 0), "", 0)
      ELSE NoGesture

\* lines 410-414: four times the hand centre
HandCenterSum(landmarks) ==
  P3(landmarks[0].x + landmarks[9].x + landmarks[13].x + landmarks[17].x,
     landmarks[0].y + landmarks[9].y + landmarks[13].y + landmarks[17].y,
     landmarks[0].z + landmarks[9].z + landmarks[13].z + landmarks[17].z)

\* lines 392-453; the thumb's 1.2 on the distances is 1.44 on their squares
detectFist(landmarks, handedness) ==
  LET wrist == landmarks[0]
      Folded(tip, middle) == Dist2(landmarks[tip], wrist) < Dist2(landmarks[middle], wrist)
      thumbFolded == 100 * Dist2(landmarks[4], wrist) < 144 * Dist2(landmarks[3], wrist)
  IN  IF Folded(8, 6) /\ Folded(12, 10) /\ Folded(16, 14) /\ Folded(20, 18) /\ thumbFolded
      THEN FistTestGesture("FIST", handedness, HandCenterSum(landmarks), "", 0)
      ELSE NoGesture

\* lines 455-495; intensity in tenths: 1.0 + min((d - 0.05) / 0.1, 3.0)
detectLeftHandStretch(landmarks, handedness) ==
  IF handedness # "Left" THEN NoGesture
  ELSE LET thumbTip == landmarks[4]
           indexTip == landmarks[8]
           thumbIndexDistance == Sqrt(Dist3Sq(thumbTip, indexTip))
       IN  IF Dist3Sq(thumbTip, indexTip) > 8 * 8
           THEN FistTestGesture("LEFT_HAND_STRETCH", handedness, P3(0, 0, 0),
                  IF Abs(thumbTip.x - indexTip.x) > Abs(thumbTip.y - indexTip.y)
                  THEN "horizontal" ELSE "vertical",
                  10 + Min(thumbIndexDistance - 5, 30))
           ELSE NoGesture

\* lines 503-511, in fortieths: (x - 0.5) * 80 is (sum - 200) / 5, and
\* (0.5 - y) * 50 is (200 - sum) / 8
HandPosition(handCenter) ==
  P3(Max(0 - 1800, Min(1800, (handCenter.x - 200) * 8)),
     Max(100, Min(2000, (200 - handCenter.y) * 5)),
     Max(0 - 1800, Min(1800, (handCenter.z - 200) * 8)))

\* variant of lines 514-521 that leaves the stretch flag alone
FistCommandsKeepStretch(commands, gesture) ==
  [commands EXCEPT !.moveCube = TRUE, !.handPosition = HandPosition(gesture.handCenter)]

\* lines 514-521
FistCommands(commands, gesture) ==
  [commands EXCEPT !.moveCube = TRUE, !.handPosition = HandPosition(gesture.handCenter),
                   !.leftHandStretch = FALSE, !.stretchDirection = "none",
                   !.stretchIntensity = 10]

\* lines 527-537; direction || 'none' and intensity || 1.0 keep a direction
\* and an intensity of detectLeftHandStretch as they are
StretchingCommands(commands, gesture) ==
  [commands EXCEPT !.leftHandStretch = TRUE, !.stretchDirection = gesture.direction,
                   !.stretchIntensity = gesture.intensity, !.moveCube = FALSE]

\* lines 541-548
ResetCommands(commands) ==
  [commands EXCEPT !.moveCube = FALSE, !.handPosition = P3(0, 0, 0),
                   !.leftHandStretch = FALSE, !.stretchDirection = "none",
                   !.stretchIntensity = 10]

\* variant of the debounce that lets a gesture through a millisecond early
FistDebouncedEarly(currentTime, lastTime) == currentTime - lastTime < FIST_DEBOUNCE - 1

\* line 551
FistDebounced(currentTime, lastTime) == currentTime - lastTime < FIST_DEBOUNCE

\* variant in which only the fist is continuous
ContinuousFistOnly(type) == type = "FIST"

\* lines 501, 526: the gestures that return before the debounce
Continuous(type) == type \in {"FIST", "LEFT_HAND_STRETCH"}

\* lines 555-575, the switch
SwitchCommands(commands, gesture) ==
  CASE gesture.type = "INDEX_POINT_UP" -> [commands EXCEPT !.createCube = ~@]
    [] gesture.type = "PALM_OPEN" -> [commands EXCEPT !.selectCube = ~@]
    [] gesture.type = "LEFT_HAND_STRETCH" ->
         [commands EXCEPT !.leftHandStretch = TRUE,
                          !.stretchDirection = gesture.direction,
                          !.stretchIntensity = gesture.intensity]
    [] OTHER -> commands

\* lines 497-576
executeGestureFist(test, gesture, currentTime) ==
  IF Continuous(gesture.type) /\ gesture.type = "FIST"
  THEN [test EXCEPT !.gestureCommands = FistCommands(@, gesture)]
  ELSE IF Continuous(gesture.type)
  THEN [test EXCEPT !.gestureCommands = StretchingCommands(@, gesture)]
  ELSE IF FistDebounced(currentTime, test.lastGestureTime)
  THEN [test EXCEPT !.gestureCommands = ResetCommands(@)]
  ELSE [test EXCEPT
          !.gestureCommands = SwitchCommands(ResetCommands(@), gesture),
          !.lastGestureTime = currentTime,
          !.lastToggle = IF gesture.type \in {"INDEX_POINT_UP", "PALM_OPEN"}
                         THEN currentTime ELSE @]

\* variant of the chain that asks for the stretch first
ChosenGestureStretchFirst(landmarks, handedness) ==
  IF detectLeftHandStretch(landmarks, handedness) # NoGesture /\ handedness = "Left"
  THEN detectLeftHandStretch(landmarks, handedness)
  ELSE IF detectFist(landmarks, handedness) # NoGesture /\ handedness = "Left"
  THEN detectFist(landmarks, handedness)
  ELSE IF detectIndexFingerPointing(landmarks, handedness) # NoGesture /\ handedness = "Right"
  THEN detectIndexFingerPointing(landmarks, handedness)
  ELSE IF detectPalmOpen(landmarks, handedness) # NoGesture /\ handedness = "Right"
  THEN detectPalmOpen(landmarks, handedness)
  ELSE NoGesture

\* lines 240-248: the gesture of one hand that is executed
ChosenGesture(landmarks, handedness) ==
  IF detectFist(landmarks, handedness) # NoGesture /\ handedness = "Left"
  THEN detectFist(landmarks, handedness)
  ELSE IF detectLeftHandStretch(landmarks, handedness) # NoGesture /\ handedness = "Left"
  THEN detectLeftHandStretch(landmarks, handedness)
  ELSE IF detectIndexFingerPointing(landmarks, handedness) # NoGesture /\ handedness = "Right"
  THEN detectIndexFingerPointing(landmarks, handedness)
  ELSE IF detectPalmOpen(landmarks, handedness) # NoGesture /\ handedness = "Right"
  THEN detectPalmOpen(landmarks, handedness)
  ELSE NoGesture

\* lines 223-252, the loop over the hands of one frame from hand i on; the
\* clock moves on by skew between two reads of Date.now()
RECURSIVE ForEachHand(_, _, _, _, _)
ForEachHand(test, results, i, currentTime, skew) ==
  IF i > Len(results) THEN test
  ELSE LET gesture == ChosenGesture(results[i].landmarks, results[i].label)
       IN  IF gesture = NoGesture
           THEN ForEachHand(test, results, i + 1, currentTime, skew)
           ELSE ForEachHand(
                  [executeGestureFist(test, gesture, currentTime) EXCEPT
                     !.executed = Append(@, [hand |-> i, type |-> gesture.type,
                                             time |-> currentTime]),
                     !.clock = currentTime],
                  results, i + 1, currentTime + skew, skew)

\* lines 207-264, with a canvas to draw on
processHandResults(test, results, currentTime, skew) ==
  [ForEachHand([test EXCEPT !.executed = << >>, !.clock = currentTime], results, 1,
               currentTime, skew)
     EXCEPT !.handsDetected =
              [count |-> Len(results),
               leftHand |-> \E i \in 1..Len(results) : results[i].label = "Left",
               rightHand |-> \E i \in 1..Len(results) : results[i].label = "Right"],
            !.frame = results,
            !.count = @ + 1]

\* The hands in front of the camera.  Wrist, knuckles (5, 9, 13, 17) and
\* middle joints (3, 6, 10, 14, 18) are those of one hand at rest; the tips
\* (4, 8, 12, 16, 20) make the shape.
HandShape(label, l4, l8, l12, l16, l20) ==
  [label |-> label,
   landmarks |->
     (0 :> P3(50, 80, 0)) @@ (3 :> P3(38, 68, 0)) @@ (4 :> l4) @@ (5 :> P3(44, 60, 0))
     @@ (6 :> P3(43, 50, 0)) @@ (8 :> l8) @@ (9 :> P3(50, 58, 0)) @@ (10 :> P3(50, 47, 0))
     @@ (12 :> l12) @@ (13 :> P3(55, 60, 0)) @@ (14 :> P3(56, 50, 0)) @@ (16 :> l16)
     @@ (17 :> P3(60, 63, 0)) @@ (18 :> P3(62, 54, 0)) @@ (20 :> l20)]

\* the same hand dy hundredths higher in the picture
Raised(hand, dy) ==
  [hand EXCEPT !.landmarks = [k \in DOMAIN hand.landmarks |->
                                [hand.landmarks[k] EXCEPT !.y = @ - dy]]]

\* a fist with the thumb tucked in: thumb to index 0.06
FistHand(label) ==
  HandShape(label, P3(45, 72, 0), P3(45, 66, 0), P3(50, 65, 0), P3(54, 66, 0), P3(58, 68, 0))
\* a fist with the thumb out: thumb to index 0.10, more across than down
ThumbOutFistHand(label) ==
  HandShape(label, P3(37, 66, 0), P3(45, 60, 0), P3(50, 65, 0), P3(54, 66, 0), P3(58, 68, 0))
\* the index finger up, the others folded: thumb to index 0.34, straight down
PointingHand(label) ==
  HandShape(label, P3(42, 72, 0), P3(42, 38, 0), P3(50, 65, 0), P3(54, 66, 0), P3(58, 68, 0))
\* all fingers out and apart: thumb to index 0.20
PalmHand(label) ==
  HandShape(label, P3(30, 54, 0), P3(42, 38, 0), P3(50, 34, 0), P3(57, 38, 0), P3(66, 46, 0))
\* index and middle finger out, the thumb at the index tip: no gesture
PeaceHand(label) ==
  HandShape(label, P3(42, 44, 0), P3(42, 38, 0), P3(50, 34, 0), P3(54, 66, 0), P3(58, 68, 0))

FistTestHands ==
  UNION {{FistHand(l), ThumbOutFistHand(l), PointingHand(l), PalmHand(l), PeaceHand(l)} :
           l \in Labels}
  \cup {Raised(ThumbOutFistHand("Left"), 50)}
\* the hands that come in pairs
FistTestPairHands ==
  {ThumbOutFistHand("Left"), PalmHand("Left"), PointingHand("Right"), PalmHand("Right")}
FistTestResults ==
  {<< >>} \cup {<<h>> : h \in FistTestHands}
  \cup {<<h1, h2>> : h1 \in FistTestPairHands, h2 \in FistTestPairHands}
\* two frames a second; with the millisecond that may pass between the two
\* hands of a frame, gestures are 998 to 1002 ms apart
FistTestDelays == {499, 500}

FistFrame ==
  /\ fistTest.count < MaxFistFrames
  /\ \E results \in FistTestResults, dt \in FistTestDelays :
       \E skew \in IF Len(results) > 1 THEN Skews ELSE {0} :
         fistTest' = processHandResults(fistTest, results, fistTest.clock + dt, skew)
  /\ UNCHANGED <<robustVars, handTracker, stretchTest>>

NextFist == FistFrame
SpecFist == Init /\ [][NextFist]_vars

----------------------------------------------------------------------------
(* Vocabulary of the properties.  They restate the thresholds on squared   *)
(* distances of the landmarks of the frame, not through the classifier's   *)
(* own operators.                                                          *)

DirectionalTypes ==
  {"STRETCH_VERTICAL", "STRETCH_HORIZONTAL", "SHRINK_VERTICAL", "SHRINK_HORIZONTAL"}

\* thumb tip and index tip less than 0.05 apart
PinchGeometry(h) == Dist2(h.l4, h.l8) < 10 * 10
\* index tip and pinky tip more than 0.25 apart
SpreadGeometry(h) == Dist2(h.l8, h.l20) > 50 * 50

FrameRan == lastOp = "frame"

\* a stability buffer of HAND_STABILITY_FRAMES samples, each less than
\* MAX_HAND_JITTER (0.02) from the one before
StillBuffer(buf) ==
  /\ Len(buf) = 4
  /\ \A i \in 2..4 : Dist2(buf[i], buf[i - 1]) < 4 * 4
SingleHandFrame == FrameRan /\ Len(frame) = 1
TwoHandFrame == FrameRan /\ Len(frame) = 2
BothPinchGeometry == PinchGeometry(frame[1]) /\ PinchGeometry(frame[2])

\* events of the given types the last handler published
EmittedOf(types) == {i \in 1..Len(emitted) : emitted[i].event.type \in types}
\* events of the last handler that reached at least one subscriber
Delivered == {i \in 1..Len(emitted) : emitted[i].receivers # << >>}

----------------------------------------------------------------------------
\* C1: any two gesture events from hand data delivered to subscribers with
\* the same type and the same handedness have data.timestamp values at least
\* GESTURE_DEBOUNCE_TIME (400 ms) apart.
C1_DeliveryStep ==
  \A i \in 1..Len(emitted') :
    LET e == emitted'[i].event
    IN  ( /\ emitted'[i].receivers # << >> /\ ~e.simulated
          /\ DeliveryKey(e) \in DOMAIN lastDelivered )
        => e.timestamp - lastDelivered[DeliveryKey(e)] >= 400

C1_TimestampsDebounced == [][C1_DeliveryStep]_vars

----------------------------------------------------------------------------
\* C2: every event delivered to a subscriber, computed from hand data or
\* produced by the simulation, has data.confidence in [0.75, 0.95].
C2_ConfidenceRange ==
  \A i \in Delivered :
    /\ emitted[i].event.confidence >= 1800
    /\ emitted[i].event.confidence <= 2280

\* a simulated event with the largest random share is delivered after the
\* scene has delivered a pinch, a spread, a stretch and a clap
C2_Witness ==
  /\ \E i \in Delivered :
       emitted[i].event.simulated /\ emitted[i].event.confidence = 1800 + 479
  /\ {"PINCH/Right", "SPREAD/Right", "STRETCH_HORIZONTAL/Both", "CLAP/Both"}
       \subseteq DOMAIN lastDelivered

----------------------------------------------------------------------------
\* C3: in a single-hand frame whose stability verdict is unstable (fewer
\* than 4 buffered wrist samples, or two consecutive samples among the last 4
\* at least 0.02 apart) no PINCH and no SPREAD event is emitted, whatever the
\* pinch and spread geometry of the frame.
C3_Unstable ==
  \/ Len(handStabilityBuffer) < 4
  \/ \E i \in 2..Len(handStabilityBuffer) :
       i > Len(handStabilityBuffer) - 4
       /\ Dist2(handStabilityBuffer[i], handStabilityBuffer[i - 1]) >= 4 * 4

C3_UnstableEmitsNothing ==
  (SingleHandFrame /\ C3_Unstable) => EmittedOf({"PINCH", "SPREAD"}) = {}

\* a full buffer with a jump of at least 0.02, the hand pinching: nothing emitted
C3_Witness ==
  /\ SingleHandFrame /\ C3_Unstable
  /\ Len(handStabilityBuffer) = 4
  /\ PinchGeometry(frame[1])
  /\ emitted = << >>

----------------------------------------------------------------------------
\* the two history entries detectTwoHandDirection compares after a frame
Newest == twoHandHistory[Len(twoHandHistory)]
Compared == twoHandHistory[Len(twoHandHistory) - 2]
SeparationChange == Newest.handsDistance - Compared.handsDistance
HorizontalChange == Newest.horizontalSpread - Compared.horizontalSpread
VerticalChange == Newest.verticalSpread - Compared.verticalSpread
\* midpoint of thumb tip and index tip, doubled to stay in the integers
TwicePinchCenter(h) == Pt(h.l4.x + h.l8.x, h.l4.y + h.l8.y)
\* the newest entry measures the hands of the frame
NewestIsFrame ==
  4 * Newest.handsDistance * Newest.handsDistance
    = Dist2(TwicePinchCenter(frame[1]), TwicePinchCenter(frame[2]))

\* C4: every STRETCH_* or SHRINK_* event computed from hand data comes from
\* a two-hand frame in which both hands pinch (thumb-index distance below
\* 0.05 on each), twoHandHistory holds at least 3 entries, the two compared
\* entries are at least 400 ms apart and the separation of the hands changed
\* by at least 0.045 between them.
C4_DirectionalPreconditions ==
  (FrameRan /\ EmittedOf(DirectionalTypes) # {}) =>
    /\ Len(frame) = 2
    /\ BothPinchGeometry
    /\ Len(twoHandHistory) >= 3
    /\ NewestIsFrame
    /\ Newest.timestamp - Compared.timestamp >= 400
    /\ Abs(SeparationChange) >= 9

\* a directional event was emitted by the last frame with exactly the
\* minimal change of 0.045
C4_Witness ==
  /\ FrameRan /\ EmittedOf(DirectionalTypes) # {}
  /\ Len(twoHandHistory) >= 3
  /\ Abs(SeparationChange) = 9

----------------------------------------------------------------------------
StretchTypes == {"STRETCH_VERTICAL", "STRETCH_HORIZONTAL"}
ShrinkTypes == {"SHRINK_VERTICAL", "SHRINK_HORIZONTAL"}
HorizontalTypes == {"STRETCH_HORIZONTAL", "SHRINK_HORIZONTAL"}
VerticalTypes == {"STRETCH_VERTICAL", "SHRINK_VERTICAL"}
HorizontalDominates == Abs(HorizontalChange) > 2 * Abs(VerticalChange)
VerticalDominates == Abs(VerticalChange) > 2 * Abs(HorizontalChange)

\* C5: a directional event is STRETCH_* exactly when the separation grew and
\* SHRINK_* exactly when it shrank; its suffix is _HORIZONTAL exactly when
\* |horizontal change| > 2 x |vertical change| and _VERTICAL exactly when
\* |vertical change| > 2 x |horizontal change|; data.direction names the
\* suffix and data.handedness is 'Both'.  When neither ratio holds the frame
\* emits no directional event.
C5_DirectionalClassification ==
  FrameRan =>
    /\ \A i \in EmittedOf(DirectionalTypes) :
         LET e == emitted[i].event
         IN  /\ (e.type \in StretchTypes) <=> (SeparationChange > 0)
             /\ (e.type \in ShrinkTypes) <=> (SeparationChange < 0)
             /\ (e.type \in HorizontalTypes) <=> HorizontalDominates
             /\ (e.type \in VerticalTypes) <=> VerticalDominates
             /\ e.direction = (IF e.type \in HorizontalTypes THEN "horizontal" ELSE "vertical")
             /\ e.handedness = "Both"
             /\ e.distanceChange = SeparationChange
    /\ ( /\ Len(frame) = 2 /\ BothPinchGeometry /\ Len(twoHandHistory) >= 3
         /\ ~HorizontalDominates /\ ~VerticalDominates )
       => EmittedOf(DirectionalTypes) = {}

\* a vertical stretch was emitted
C5_Witness ==
  /\ FrameRan
  /\ \E i \in EmittedOf({"STRETCH_VERTICAL"}) :
       /\ emitted[i].event.direction = "vertical"
       /\ emitted[i].event.distanceChange > 0
       /\ VerticalDominates

----------------------------------------------------------------------------
\* C6: a two-hand frame in which at least one hand is not pinching and the
\* middle-finger MCP joints are less than 0.12 apart emits CLAP with
\* handedness 'Both' and confidence min(0.95, 0.85 + 0.1 x (0.12 - d) / 0.12)
\* unless the debounce rejects it; at 0.12 or more it emits nothing; in both
\* cases twoHandHistory is left as it was and no directional event results.
C6_ClapStep ==
  ( /\ lastOp' = "frame" /\ Len(frame') = 2
    /\ ~(PinchGeometry(frame'[1]) /\ PinchGeometry(frame'[2])) )
  => LET d2 == Dist2(frame'[1].l9, frame'[2].l9)
     IN  /\ twoHandHistory' = twoHandHistory
         /\ \A i \in 1..Len(emitted') : emitted'[i].event.type = "CLAP"
         /\ d2 >= 24 * 24 => emitted' = << >>
         /\ d2 < 24 * 24 =>
              \/ /\ emitted' = << >>
                 /\ clock' - MapGetOrZero(lastGestureTime, "CLAP") < 400
              \/ /\ Len(emitted') = 1
                 /\ emitted'[1].event.handedness = "Both"
                 /\ \E d \in 0..23 :
                      /\ d * d = d2
                      /\ emitted'[1].event.confidence = Min(2280, 2040 + 10 * (24 - d))

C6_ClapRule == [][C6_ClapStep]_vars

\* a clap at distance 0.09 was emitted with confidence 0.875 and the history
\* of an earlier pinching frame is still there
C6_Witness ==
  /\ TwoHandFrame /\ ~BothPinchGeometry
  /\ Dist2(frame[1].l9, frame[2].l9) = 18 * 18
  /\ \E i \in EmittedOf({"CLAP"}) : emitted[i].event.confidence = 2100
  /\ Len(twoHandHistory) >= 1

----------------------------------------------------------------------------
\* C7: publishing an event invokes every currently subscribed callback
\* exactly once, in subscription order.
C7_AllInvokedInOrder ==
  \A i \in 1..Len(emitted) : emitted[i].receivers = emitted[i].subscribed

----------------------------------------------------------------------------
\* C8: a callback that throws during a publish does not keep the callbacks
\* subscribed after it from being invoked for that event, and the exception
\* does not leave the publish operation.
C8_ThrowContained ==
  /\ ~thrown
  /\ \A i \in 1..Len(emitted) : \A k \in 1..Len(emitted[i].subscribed) :
       Throws(emitted[i].subscribed[k]) =>
         Len(emitted[i].receivers) = Len(emitted[i].subscribed)

----------------------------------------------------------------------------
\* C9: after destroy() no subscriber callback is invoked until initialize()
\* is called again, whether by a simulation timer or by the frame loop.
C9_SilentAfterDestroy == destroyed => Delivered = {}

----------------------------------------------------------------------------
\* C10: after destroy() the stability buffer, the two-hand history, the
\* debounce map and the subscriber list are all empty.
C10_DestroyEmptiesAll ==
  lastOp = "destroy" =>
    /\ handStabilityBuffer = << >>
    /\ twoHandHistory = << >>
    /\ lastGestureTime = EmptyMap
    /\ callbacks = << >>

----------------------------------------------------------------------------
\* C11: two fresh trackers fed the same frame sequence deliver the same
\* events, with the same types, handedness, confidences and timestamps.
DeliveredEvents(entries) ==
  {entries[i].event : i \in {j \in 1..Len(entries) : entries[j].receivers # << >>}}
C11_ReplicaAgrees == DeliveredEvents(replica.emitted) = DeliveredEvents(emitted)

----------------------------------------------------------------------------
\* C12: a frame containing a hand with fewer than 21 landmarks produces no
\* event, raises no exception, and leaves the stability buffer, the two-hand
\* history and the debounce map unchanged.
ShortHand(h) == h.l20 = Undefined
C12_ShortFrameStep ==
  (lastOp' = "frame" /\ \E i \in 1..Len(frame') : ShortHand(frame'[i]))
    => (emitted' = << >> /\ ~thrown' /\ UNCHANGED engineVars)
C12_ShortFrameIgnored == [][C12_ShortFrameStep]_vars

----------------------------------------------------------------------------
\* C13: stability is tracked per hand: the samples of the left hand never
\* influence the verdict (or the warm-up count) of the right hand, so what a
\* frame of the right hand yields is what it yields in a tracker that was
\* never shown the left hand.
C13_RightUnaffectedByLeft ==
  (SingleHandFrame /\ frame[1].label = "Right")
    => DeliveredEvents(emitted) = DeliveredEvents(replica.emitted)

----------------------------------------------------------------------------
\* C14: the debounce gate for a key rejects (nothing is emitted, the key's
\* last-emission time stays) when called less than 400 ms after the last
\* admitted call for that key, and otherwise records the current time and
\* admits.  The gate of "PINCH_<hand>" is called by every single-hand frame
\* that passes the stability gate with a pinching hand, at the clock value
\* the frame leaves.
PinchKey(h) == "PINCH_" \o h.label
C14_GateStep ==
  (lastOp' = "frame" /\ Len(frame') = 1 /\ PinchGeometry(frame'[1])
     /\ StillBuffer(handStabilityBuffer'))
    => LET key == PinchKey(frame'[1])
           now == clock'
       IN  IF key \in DOMAIN lastGestureTime /\ now - lastGestureTime[key] < 400
           THEN emitted' = << >> /\ lastGestureTime' = lastGestureTime
           ELSE /\ lastGestureTime' =
                     [k \in DOMAIN lastGestureTime \cup {key} |->
                        IF k = key THEN now ELSE lastGestureTime[k]]
                /\ Len(emitted') = 1
                /\ emitted'[1].event.type = "PINCH"
                /\ emitted'[1].event.handedness = frame'[1].label
C14_DebounceGate == [][C14_GateStep]_vars
\* the hand is held pinching: admitted by the fourth frame, rejected by the
\* fifth (at most 250 ms later), admitted again by the sixth
C14_Witness ==
  /\ steps.frames = 6 /\ SingleHandFrame /\ PinchGeometry(frame[1])
  /\ EmittedOf({"PINCH"}) # {}
  /\ DOMAIN lastGestureTime = {"PINCH_Right"}
  /\ lastGestureTime["PINCH_Right"] = clock

----------------------------------------------------------------------------
\* C15: checkHandStability returns stable exactly when the buffer, after the
\* push of the current wrist position, holds 4 samples and the largest
\* displacement between consecutive samples is strictly below 0.02; with
\* fewer than 4 samples it returns unstable.  The verdict shows in a frame
\* of a pinching or spread hand: an unstable one returns before the gesture
\* tests, a stable one reaches the debounce gate of its gesture.
GestureKey(h) == (IF PinchGeometry(h) THEN "PINCH_" ELSE "SPREAD_") \o h.label
Debounced(key, now) ==
  key \in DOMAIN lastGestureTime /\ now - lastGestureTime[key] < 400
C15_VerdictStep ==
  (lastOp' = "frame" /\ Len(frame') = 1)
    => /\ handStabilityBuffer' =
            LET b == Append(handStabilityBuffer, frame'[1].l0)
            IN  IF Len(b) > 4 THEN Tail(b) ELSE b
       /\ (PinchGeometry(frame'[1]) \/ SpreadGeometry(frame'[1]))
            => IF StillBuffer(handStabilityBuffer')
               THEN emitted' # << >> \/ Debounced(GestureKey(frame'[1]), clock')
               ELSE emitted' = << >> /\ lastGestureTime' = lastGestureTime
C15_StabilityVerdict == [][C15_VerdictStep]_vars
\* four samples that moved 0.015 at most and at least once: stable
C15_Witness ==
  /\ SingleHandFrame /\ emitted # << >>
  /\ StillBuffer(handStabilityBuffer)
  /\ \E i \in 2..4 : Dist2(handStabilityBuffer[i], handStabilityBuffer[i - 1]) = 3 * 3

----------------------------------------------------------------------------
\* C16: in every reachable state the two-hand history holds at most
\* HISTORY_SIZE = 7 entries with non-decreasing timestamps (the oldest is
\* evicted when an eighth is appended), and the stability buffer holds at
\* most HAND_STABILITY_FRAMES = 4 entries.
C16_WindowsBounded ==
  /\ Len(twoHandHistory) <= 7
  /\ \A i \in 2..Len(twoHandHistory) :
       twoHandHistory[i - 1].timestamp <= twoHandHistory[i].timestamp
  /\ Len(handStabilityBuffer) <= 4
\* eight two-hand frames and five single-hand frames have been processed
C16_Witness ==
  /\ steps.frames = 13
  /\ Len(twoHandHistory) = 7 /\ Len(handStabilityBuffer) = 4
  /\ twoHandHistory[1].timestamp > StartClock + 250

----------------------------------------------------------------------------
\* C17: at most one of PINCH and SPREAD is emitted for a hand in a frame, and
\* pinch has precedence: whenever the pinch predicate holds (thumb-index
\* below 0.05) no SPREAD is emitted in that frame, even if the spread
\* predicate holds too and even if the PINCH is suppressed by debounce.
C17_PinchPrecedence ==
  SingleHandFrame
    => /\ Cardinality(EmittedOf({"PINCH", "SPREAD"})) <= 1
       /\ PinchGeometry(frame[1]) => EmittedOf({"SPREAD"}) = {}
\* a stable hand that pinches with spread fingers, its PINCH debounced and no
\* SPREAD of it emitted before
C17_Witness ==
  /\ SingleHandFrame /\ PinchGeometry(frame[1]) /\ SpreadGeometry(frame[1])
  /\ StillBuffer(handStabilityBuffer)
  /\ emitted = << >>
  /\ DOMAIN lastGestureTime = {"PINCH_Right"}
  /\ clock - lastGestureTime["PINCH_Right"] < 400

----------------------------------------------------------------------------
\* C18: two-hand classification (CLAP, STRETCH_*, SHRINK_*) runs only in
\* frames of exactly two hands and single-hand classification (PINCH,
\* SPREAD) only in frames of exactly one hand, so a frame publishes at most
\* one gesture event, and a frame with no hands publishes nothing and
\* changes no engine state.
C18_DispatchStep ==
  lastOp' = "frame"
    => /\ Len(emitted') <= 1
       /\ \A i \in 1..Len(emitted') :
            /\ emitted'[i].event.type \in {"PINCH", "SPREAD"} => Len(frame') = 1
            /\ emitted'[i].event.type \in {"CLAP"} \cup DirectionalTypes => Len(frame') = 2
       /\ Len(frame') # 1 => UNCHANGED handStabilityBuffer
       /\ Len(frame') # 2 => UNCHANGED twoHandHistory
       /\ Len(frame') = 0 => emitted' = << >> /\ UNCHANGED engineVars
C18_DispatchByHandCount == [][C18_DispatchStep]_vars
\* a frame with no hands, after frames of one hand and of two hands have
\* filled the buffers and the debounce map
C18_Witness ==
  /\ FrameRan /\ frame = NoHands /\ emitted = << >>
  /\ handStabilityBuffer # << >> /\ twoHandHistory # << >>
  /\ lastGestureTime # EmptyMap

----------------------------------------------------------------------------
\* C19: directional classification compares the newest history entry with
\* the entry three slots back in the two-hand history window: the time
\* difference, the separation change and the horizontal and vertical change
\* are taken between those two entries.
\* As stated: the entry three slots before the newest one.
ThreeBack == twoHandHistory[Len(twoHandHistory) - 3]
----------------------------------------------------------------------------
\* C20 (scenario A): a fresh tracker fed 4 consecutive single-hand frames of
\* a stable hand whose thumb-index distance is 0.03 produces exactly one
\* PINCH event, emitted on the fourth frame, with confidence 0.95.
FourStillFrames ==
  /\ SingleHandFrame /\ steps.frames = 4
  /\ StillBuffer(handStabilityBuffer)
  /\ Dist2(frame[1].l4, frame[1].l8) = 6 * 6
C20_ScenarioA ==
  /\ (FrameRan /\ steps.frames < 4) => emitted = << >>
  /\ FourStillFrames
       => /\ Len(emitted) = 1
          /\ emitted[1].event.type = "PINCH"
          /\ emitted[1].event.handedness = frame[1].label
          /\ emitted[1].event.confidence = 2280
          /\ emitted[1].event.timestamp <= clock
          /\ emitted[1].receivers = callbacks
C20_Witness ==
  /\ FourStillFrames
  /\ Delivered # {}
  /\ emitted[1].event.type = "PINCH" /\ emitted[1].event.confidence = 2280

----------------------------------------------------------------------------
\* C21 (scenario B): a single stable hand with index-pinky distance 0.30 and
\* no pinch produces one SPREAD event whose confidence is 0.85.
\* The fourth frame of a fresh tracker is the first that can be stable, and
\* nothing can be debounced yet.
FirstStillWideFrame ==
  /\ SingleHandFrame /\ steps.frames = 4
  /\ StillBuffer(handStabilityBuffer)
  /\ ~PinchGeometry(frame[1])
  /\ Dist2(frame[1].l8, frame[1].l20) = 60 * 60
OneSpreadOf(confidence) ==
  /\ Len(emitted) = 1
  /\ emitted[1].event.type = "SPREAD"
  /\ emitted[1].event.handedness = frame[1].label
  /\ emitted[1].event.confidence = confidence
\* as stated: 0.85
C21_ScenarioB == FirstStillWideFrame => OneSpreadOf(2040)
\* as computed: min(0.95, 0.75 + 0.1 + 0.05) = 0.90, and so for every SPREAD
C21_SpreadConfidence ==
  /\ FirstStillWideFrame => OneSpreadOf(2160)
  /\ FrameRan => \A i \in EmittedOf({"SPREAD"}) : emitted[i].event.confidence = 2160
C21_Witness == FirstStillWideFrame /\ Delivered # {} /\ OneSpreadOf(2160)

----------------------------------------------------------------------------
\* C22: when both hands of a two-hand frame carry the same handedness label,
\* two-hand correlation is skipped: no CLAP or directional event is emitted,
\* no error is raised and the two-hand history is not modified.
C22_SameLabelStep ==
  (lastOp' = "frame" /\ Len(frame') = 2 /\ frame'[1].label = frame'[2].label)
    => (emitted' = << >> /\ ~thrown' /\ UNCHANGED twoHandHistory)
C22_SameLabelSkipped == [][C22_SameLabelStep]_vars

----------------------------------------------------------------------------
\* C23: frame processing never overlaps: a tracker never submits a new video
\* frame to the landmark detector (hands.send) while a previously submitted
\* one is still being processed, in RobustMediaPipeTracker's loop and in
\* handTracker's Camera loop.
C23_NoOverlap == sending <= 1 /\ handTracker.sending <= 1

----------------------------------------------------------------------------
\* C24: every directional (STRETCH_*/SHRINK_*) event emitted from hand data
\* has confidence exactly 0.95: with |distanceChange| >= 0.045 required,
\* 0.65 + 8 x |distanceChange| already exceeds the cap, so the confidence
\* threshold never discards a directional gesture and the full-history
\* bonus never changes the result.
C24_DirectionalConfidence ==
  FrameRan
    => /\ \A i \in EmittedOf(DirectionalTypes) :
            /\ emitted[i].event.confidence = 2280
            /\ ~emitted[i].event.simulated
            /\ emitted[i].receivers = callbacks
       \* a directional gesture that passed the debounce gate in this frame
       \* was emitted
       /\ \A type \in DirectionalTypes \cap DOMAIN lastGestureTime :
            lastGestureTime[type] = clock => EmittedOf({type}) # {}
\* the smallest admitted change, once with a history short of its capacity
\* and once with a full one
C24_Witness ==
  /\ FrameRan /\ EmittedOf(DirectionalTypes) # {} /\ Delivered # {}
  /\ Abs(SeparationChange) = 9
  /\ Len(twoHandHistory) = 7

----------------------------------------------------------------------------
\* C25: the last-emission time of a debounce key changes during a frame if
\* and only if an event with that key is published to the subscribers in
\* that same frame: a gesture rejected for confidence, ambiguity or
\* instability never consumes the debounce window.
DebounceKeys ==
  {"PINCH_Left", "PINCH_Right", "SPREAD_Left", "SPREAD_Right", "CLAP"} \cup DirectionalTypes
KeyOf(event) ==
  IF event.type \in {"PINCH", "SPREAD"} THEN event.type \o "_" \o event.handedness
  ELSE event.type
LastEmission(map, key) == IF key \in DOMAIN map THEN map[key] ELSE 0
C25_KeyStep ==
  lastOp' = "frame"
    => /\ DOMAIN lastGestureTime' \subseteq DebounceKeys
       /\ \A key \in DebounceKeys :
            (LastEmission(lastGestureTime', key) # LastEmission(lastGestureTime, key))
              <=> (\E i \in 1..Len(emitted') :
                     /\ KeyOf(emitted'[i].event) = key
                     /\ emitted'[i].receivers = callbacks)
C25_KeyMovesWithEvent == [][C25_KeyStep]_vars
\* a clap inside the window of the last one: no event, the key stays
C25_Witness ==
  /\ TwoHandFrame /\ ~BothPinchGeometry /\ emitted = << >>
  /\ callbacks # << >>
  /\ Dist2(frame[1].l9, frame[2].l9) < 24 * 24
  /\ "CLAP" \in DOMAIN lastGestureTime /\ clock - lastGestureTime["CLAP"] \in 1..399

----------------------------------------------------------------------------
\* C26: a directional event is never computed against a baseline measured
\* before an interruption: if between two both-pinching frames there was a
\* frame in which the hands were not both pinching (or fewer than two hands
\* were reported), measurements from before it are not the comparison entry.
\* Where frames come 249 ms apart and a handler takes 1 ms at most, two
\* neighbouring history entries more than 250 ms apart have between them a
\* frame that appended nothing: an interruption.
FramePeriod == (CHOOSE d \in SteadyDelays : \A e \in SteadyDelays : e <= d) + 1
Interrupted(older, newer) == newer.timestamp - older.timestamp > FramePeriod
C26_NoStaleBaseline ==
  (FrameRan /\ EmittedOf(DirectionalTypes) # {})
    => \A j \in (Len(twoHandHistory) - 2)..(Len(twoHandHistory) - 1) :
         ~Interrupted(twoHandHistory[j], twoHandHistory[j + 1])


----------------------------------------------------------------------------
\* C30: once initializeMediaPipe has completed successfully, the frame loop
\* keeps scheduling its next iteration until destroy(), whatever the video's
\* readyState was when the loop was first entered: at every moment between
\* the two, an animation frame is requested or a send is in flight.
C30_LoopKeepsScheduling ==
  (isInitialized /\ hands = "open") => rafPending + sending > 0


----------------------------------------------------------------------------
\* C29: after any number of Start/Stop cycles of the MediaPipeTest component
\* on the shared tracker, the tracker has at most one registered subscriber
\* while the component is running, so each event is appended to the
\* component's log exactly once.
C29_OneSubscriberWhileRunning ==
  (IsRunning /\ ~StartAwaits) =>
    /\ Len(callbacks) = 1
    /\ \A i \in 1..Len(emitted) : Len(emitted[i].receivers) = 1


----------------------------------------------------------------------------
\* C27: once the unsubscribe function that subscribe(cb) returned has
\* returned, cb is not invoked again for that registration, also when it is
\* called by another subscriber while an event is being published: a
\* callback whose every unsubscribe function has been called is registered
\* nowhere, and in a publish no callback with one registration and one
\* unsubscribe function is invoked after a subscriber called that function.
Registrations(cbs, cb) == Cardinality({k \in 1..Len(cbs) : cbs[k] = cb})
ClosuresOf(closures, cb) == {i \in 1..Len(closures) : closures[i].callback = cb}
AllCalled(closures, cb) ==
  /\ ClosuresOf(closures, cb) # {}
  /\ \A i \in ClosuresOf(closures, cb) : closures[i].calls > 0
InvokedAfterUnsubscribe(entry, k) ==
  /\ entry.receivers[k] \in PlainCallbacks
  /\ Registrations(entry.subscribed, entry.receivers[k]) = 1
  /\ Cardinality(ClosuresOf(unsubscribes, entry.receivers[k])) = 1
  /\ \E j \in 1..(k - 1) : entry.unsubscribing[j]
C27_SilentOnceUnsubscribed ==
  /\ \A cb \in PlainCallbacks \cup UnsubscribingCallbacks :
       /\ AllCalled(unsubscribes, cb) => Registrations(callbacks, cb) = 0
       /\ AllCalled(handTracker.unsubscribes, cb)
            => Registrations(handTracker.callbacks, cb) = 0
  /\ \A i \in 1..Len(emitted) : \A k \in 1..Len(emitted[i].receivers) :
       ~InvokedAfterUnsubscribe(emitted[i], k)

----------------------------------------------------------------------------
\* C28: an unsubscribe function removes exactly the registration it was
\* created for, every other registration stays, a second registration of the
\* same callback included, and a second call of the same unsubscribe function
\* changes nothing: the first call of a function takes one element that is its
\* callback out of the list, and a repeated call leaves the list as it is.
RemovesOne(before, after, cb) ==
  \E k \in 1..Len(before) : before[k] = cb /\ after = RemoveAt(before, k)
UnsubscribeExact(closures, closuresAfter, before, after) ==
  \A i \in 1..Len(closures) :
    (Len(closuresAfter) = Len(closures) /\ closuresAfter[i].calls # closures[i].calls)
      => IF closures[i].calls = 0
         THEN RemovesOne(before, after, closures[i].callback)
         ELSE after = before
C28_RobustStep == UnsubscribeExact(unsubscribes, unsubscribes', callbacks, callbacks')
C28_HandTrackerStep ==
  UnsubscribeExact(handTracker.unsubscribes, handTracker.unsubscribes',
                   handTracker.callbacks, handTracker.callbacks')
C28_UnsubscribeExact == [][C28_RobustStep /\ C28_HandTrackerStep]_vars


----------------------------------------------------------------------------
\* C31: if handTracker.destroy() is called while handTracker.initialize() is
\* still awaiting the camera start, then once both have finished the tracker
\* reports initialized = false, the camera frame loop is not running and no
\* frame is sent to the detector: the step that ends such an initialize
\* leaves isInitialized false, no frame loop, and no new send.
DestroyedWhileStarting == handTracker.camera = "stoppedStarting"
C31_Step ==
  (DestroyedWhileStarting /\ ~DestroyedWhileStarting')
    => /\ ~handTracker'.isInitialized
       /\ handTracker'.loops = 0
       /\ handTracker'.sending = handTracker.sending
       /\ handTracker'.closedSending = handTracker.closedSending
C31_DestroyWinsOverStart == [][C31_Step]_vars


----------------------------------------------------------------------------
\* C32: in the SimpleHandTrackingTest variant with stretch and shrink
\* gestures (part_001), resizeValue stays within [0.3, 3.0] in every
\* reachable state, for any sequence of STRETCH_*, SHRINK_* and SPREAD
\* gestures.
C32_ResizeInRange ==
  /\ stretchTest.gestureCommands.resizeValue >= 3
  /\ stretchTest.gestureCommands.resizeValue <= 30
\* a shrink gesture was executed at the floor
C32_Witness ==
  /\ stretchTest.gestureCommands.resizeValue = 3
  /\ \E t \in {"SHRINK_HORIZONTAL", "SHRINK_VERTICAL"} :
       /\ (t \o "_Both") \in DOMAIN stretchTest.lastGestureTime
       /\ stretchTest.lastGestureTime[t \o "_Both"] = stretchTest.clock
  /\ \E t \in {"STRETCH_HORIZONTAL", "STRETCH_VERTICAL"} :
       (t \o "_Both") \in DOMAIN stretchTest.lastGestureTime


----------------------------------------------------------------------------
\* C33: in the fist and pointing variant (part_000) the createCube and
\* selectCube flags are driven by one shared 1-second debounce: any toggle of
\* either flag happens at least 1000 ms after the previous toggle of either
\* flag.
Toggled ==
  \/ fistTest'.gestureCommands.createCube # fistTest.gestureCommands.createCube
  \/ fistTest'.gestureCommands.selectCube # fistTest.gestureCommands.selectCube
C33_Step ==
  Toggled => \/ fistTest.lastToggle = 0
             \/ fistTest'.lastToggle - fistTest.lastToggle >= 1000
C33_SharedDebounce == [][C33_Step]_vars
\* both flags were toggled once, the second in the first millisecond in
\* which the debounce lets it: the other hand's gesture of the millisecond
\* before was not executed
C33_Witness ==
  /\ fistTest.gestureCommands.createCube
  /\ fistTest.gestureCommands.selectCube
  /\ fistTest.count = 3
  /\ \E k \in 1..Len(fistTest.executed) :
       /\ fistTest.executed[k].type \in {"INDEX_POINT_UP", "PALM_OPEN"}
       /\ fistTest.executed[k].time = fistTest.lastToggle
  /\ \E k \in 1..Len(fistTest.executed) :
       /\ fistTest.executed[k].type \in {"INDEX_POINT_UP", "PALM_OPEN"}
       /\ fistTest.executed[k].time = fistTest.lastToggle - 1


----------------------------------------------------------------------------
\* C34: in part_000's executeGesture, FIST and LEFT_HAND_STRETCH gestures are
\* applied on every frame in which they are detected regardless of the
\* debounce timer, and they leave lastGestureTime, createCube and selectCube
\* unchanged: a frame that executes only such gestures ends with the flags of
\* the last of them set, and with the three as they were.
ContinuousTypes == {"FIST", "LEFT_HAND_STRETCH"}
OnlyContinuous(executed) ==
  /\ executed # << >>
  /\ \A k \in 1..Len(executed) : executed[k].type \in ContinuousTypes
C34_Step ==
  OnlyContinuous(fistTest'.executed)
    => /\ fistTest'.lastGestureTime = fistTest.lastGestureTime
       /\ fistTest'.gestureCommands.createCube = fistTest.gestureCommands.createCube
       /\ fistTest'.gestureCommands.selectCube = fistTest.gestureCommands.selectCube
       /\ LET last == fistTest'.executed[Len(fistTest'.executed)].type
          IN  /\ fistTest'.gestureCommands.moveCube = (last = "FIST")
              /\ fistTest'.gestureCommands.leftHandStretch = (last = "LEFT_HAND_STRETCH")
C34_ContinuousGestures == [][C34_Step]_vars
\* a stretch was executed within a second of a toggle
C34_Witness ==
  /\ OnlyContinuous(fistTest.executed)
  /\ fistTest.lastGestureTime > 0
  /\ fistTest.clock - fistTest.lastGestureTime < 1000
  /\ fistTest.gestureCommands.leftHandStretch
  /\ fistTest.gestureCommands.stretchIntensity = 39


----------------------------------------------------------------------------
\* C35: in part_000, moveCube and leftHandStretch are never both true.
C35_MoveXorStretch ==
  ~(fistTest.gestureCommands.moveCube /\ fistTest.gestureCommands.leftHandStretch)
\* a fist replaced a stretch: one frame executed LEFT_HAND_STRETCH for its
\* first hand and FIST for its second
C35_Witness ==
  /\ Len(fistTest.executed) = 2
  /\ fistTest.executed[1].type = "LEFT_HAND_STRETCH"
  /\ fistTest.executed[2].type = "FIST"
  /\ fistTest.gestureCommands.moveCube


----------------------------------------------------------------------------
\* C36: in part_000 the hand-specific rules hold for every frame: only a hand
\* labelled Left triggers FIST or LEFT_HAND_STRETCH, the fist before the
\* stretch; only a hand labelled Right triggers INDEX_POINT_UP or PALM_OPEN,
\* pointing before the palm; and a hand executes at most one gesture a frame.
HandOf(entry) == fistTest.frame[entry.hand]
ShowsFist(hand) == detectFist(hand.landmarks, hand.label) # NoGesture
ShowsStretch(hand) == detectLeftHandStretch(hand.landmarks, hand.label) # NoGesture
ShowsPointing(hand) == detectIndexFingerPointing(hand.landmarks, hand.label) # NoGesture
C36_HandRules ==
  LET executed == fistTest.executed
  IN  /\ \A k \in 1..Len(executed) :
           /\ executed[k].hand \in 1..Len(fistTest.frame)
           /\ executed[k].type \in {"FIST", "LEFT_HAND_STRETCH"}
                => HandOf(executed[k]).label = "Left"
           /\ executed[k].type \in {"INDEX_POINT_UP", "PALM_OPEN"}
                => HandOf(executed[k]).label = "Right"
           /\ executed[k].type = "FIST" <=>
                (HandOf(executed[k]).label = "Left" /\ ShowsFist(HandOf(executed[k])))
           /\ executed[k].type = "INDEX_POINT_UP" <=>
                (HandOf(executed[k]).label = "Right" /\ ShowsPointing(HandOf(executed[k])))
      /\ \A j, k \in 1..Len(executed) : executed[j].hand = executed[k].hand => j = k
\* a Left hand that shows a fist and a stretch executed the fist, next to a
\* Right hand
C36_Witness ==
  /\ Len(fistTest.executed) = 2
  /\ \E k \in 1..2 :
       /\ fistTest.executed[k].type = "FIST"
       /\ ShowsStretch(HandOf(fistTest.executed[k]))
  /\ \E k \in 1..2 : fistTest.executed[k].type = "PALM_OPEN"


----------------------------------------------------------------------------
\* C37: in part_000, while the Left hand shows a fist in every frame,
\* moveCube is true after every processed frame, whatever the Right hand
\* shows: after a frame whose one Left hand shows a fist, moveCube is true.
LeftFistInFrame ==
  \E i \in 1..Len(fistTest.frame) :
    /\ fistTest.frame[i].label = "Left" /\ ShowsFist(fistTest.frame[i])
    /\ \A j \in 1..Len(fistTest.frame) : j # i => fistTest.frame[j].label = "Right"
C37_FistKeepsMoving ==
  (fistTest.count > 0 /\ LeftFistInFrame) => fistTest.gestureCommands.moveCube

====
